---- MODULE Spec2Model ----
(***************************************************************************)
(* Dense-region decomposition of bigfish.detection.dense_decomposition:    *)
(* decompose_dense, get_dense_region and the greedy gaussian-mixture fit   *)
(* (_gaussian_mixture_2d / _gaussian_mixture_3d).                          *)
(*                                                                         *)
(* Arrays are records [dtype, shape, data] with data the row-major         *)
(* flattening of the array (numpy's C order); Python indices are 0-based,  *)
(* TLA+ sequences 1-based, so flat index k is data[k + 1].  Intensities,   *)
(* amplitudes and the values of the erf table are integers (fixed-point    *)
(* units), so that the sums of squared residuals are exact.                *)
(***************************************************************************)
EXTENDS Integers, Sequences, FiniteSets, TLC

\* ------------------------------------------------------------------ bounds

\* Largest pixel intensity of an input image.
MaxPix == 4
\* Largest fitted amplitude and background handed to the fit.
MaxAmp == 1
MaxBg == 3
\* Largest value of limit_gaussian tried when the fit is called directly.
MaxLimit == 2
\* Default of the limit_gaussian parameter.
LimitDefault == 1000
\* Side of the all-zero reference spot returned when no spot was detected.
EmptyReferenceSide == 5

\* Element types accepted by check_array.
DTypes == {"uint8", "uint16", "float32", "float64"}
IntegerDTypes == {"uint8", "uint16"}

\* Shapes of the region patches fitted directly: (y, x) and (z, y, x).
FitShapes == {<<1, 3>>, <<1, 1, 3>>}
\* Voxel sizes and sigmas tried.
VoxelSizes == {2}
Sigmas == {1, 2}
SigmasZ == {1}

\* A number given as a fraction (alpha, beta and gamma are int or float).
Rat(n, d) == [num |-> n, den |-> d]
\* r < k and r > k for an integer k.
RatBelow(r, k) == r.num < k * r.den
RatAbove(r, k) == r.num > k * r.den
\* The cast of a float to int64: the digits after the point are cut, towards
\* zero for a negative number.
ToInt64(r) ==
    IF r.num < 0 THEN 0 - ((0 - r.num) \div r.den) ELSE r.num \div r.den

\* None of an optional argument; a present value v is <<v>>.
None == <<>>
Some(v) == <<v>>
NoArray == [dtype |-> "none", shape |-> <<>>, data |-> <<>>]
NoRegion == [bbox |-> <<>>, area |-> 0, mean_intensity |-> [num |-> 0, den |-> 1]]
NoParameters == [sigma_z |-> None, sigma_yx |-> 0, amplitude |-> 0,
                 background |-> 0]

\* ------------------------------------------------------- array arithmetic

RECURSIVE Prod(_, _)
\* Product of s[i], ..., s[Len(s)].
Prod(s, i) == IF i > Len(s) THEN 1 ELSE s[i] * Prod(s, i + 1)

\* ndarray.size
Size(shape) == Prod(shape, 1)

\* np.unravel_index: the coordinates of flat index k (0-based), row-major.
Unravel(k, shape) ==
    [a \in 1..Len(shape) |-> (k \div Prod(shape, a + 1)) % shape[a]]

RECURSIVE RavelFrom(_, _, _)
RavelFrom(c, shape, a) ==
    IF a > Len(shape) THEN 0
    ELSE c[a] * Prod(shape, a + 1) + RavelFrom(c, shape, a + 1)

\* np.ravel_multi_index: the flat index (0-based) of coordinates c.
Ravel(c, shape) == RavelFrom(c, shape, 1)

RECURSIVE SumBetween(_, _, _)
\* v[i] + ... + v[j], by halves.
SumBetween(v, i, j) ==
    IF i > j THEN 0
    ELSE IF i = j THEN v[i]
    ELSE SumBetween(v, i, (i + j) \div 2)
         + SumBetween(v, (i + j) \div 2 + 1, j)

\* np.sum
Sum(v) == SumBetween(v, 1, Len(v))

\* np.sum(residual ** 2)
SumSq(v) == Sum([k \in 1..Len(v) |-> v[k] * v[k]])

\* np.argmax: the 0-based flat index of the first occurrence of the maximum.
ArgMax(v) ==
    (CHOOSE k \in 1..Len(v) :
        /\ \A j \in 1..Len(v) : v[j] <= v[k]
        /\ \A j \in 1..(k - 1) : v[j] < v[k]) - 1

\* np.max of a non-empty flat array.
MaxOf(v) == v[ArgMax(v) + 1]

Abs(x) == IF x < 0 THEN 0 - x ELSE x

\* image[box]: the patch of a half-open bounding box (min..., max...).
BoxShape(bbox) ==
    LET n == Len(bbox) \div 2 IN [a \in 1..n |-> bbox[n + a] - bbox[a]]

Crop(img, bbox) ==
    LET n == Len(bbox) \div 2
        shp == BoxShape(bbox)
    IN  [dtype |-> img.dtype,
         shape |-> shp,
         data |-> [k \in 1..Size(shp) |->
                     img.data[Ravel([a \in 1..n |->
                                       Unravel(k - 1, shp)[a] + bbox[a]],
                                    img.shape) + 1]]]

\* The bounding box of a whole array.
FullBox(shape) ==
    [a \in 1..(2 * Len(shape)) |->
        IF a <= Len(shape) THEN 0 ELSE shape[a - Len(shape)]]

\* ---------------------------------------------------------- spot_modeling

\* Values of the precomputed erf table of one axis, by pixel distance:
\* strictly decreasing from the centre, in fixed-point units.
ErfTable == <<  <<1>>, <<2, 1>>  >>

\* precompute_erf: the table of each axis (sigma_z for z, sigma_yx for y, x).
Precompute(nd, sz, syx) ==
    [a \in 1..nd |-> ErfTable[IF nd = 3 /\ a = 1 THEN sz[1] ELSE syx]]

\* Voxel size of axis a.
VoxelAxis(nd, a, vz, vyx) == IF nd = 3 /\ a = 1 THEN vz[1] ELSE vyx

\* _initialize_grid_2d / _initialize_grid_3d: grid[:, k], the physical
\* coordinates (pixel index times voxel size) of flat index k.
GridPoint(k, shape, vz, vyx) ==
    [a \in 1..Len(shape) |->
        Unravel(k, shape)[a] * VoxelAxis(Len(shape), a, vz, vyx)]

\* One looked-up voxel integral: the table entry at the distance to mu.
VoxelIntegral(table, d) == IF d + 1 <= Len(table) THEN table[d + 1] ELSE 0

RECURSIVE IntegralProduct(_, _, _, _, _, _)
IntegralProduct(p, mu, tables, vz, vyx, a) ==
    IF a > Len(p) THEN 1
    ELSE VoxelIntegral(tables[a],
                       Abs(p[a] - mu[a]) \div VoxelAxis(Len(p), a, vz, vyx))
         * IntegralProduct(p, mu, tables, vz, vyx, a + 1)

\* _gaussian_2d / _gaussian_3d on the whole grid, centred at mu:
\* psf_amplitude * product of the voxel integrals + psf_background.
Gaussian(shape, mu, vz, vyx, psf_amplitude, psf_background, tables) ==
    [k \in 1..Size(shape) |->
        psf_amplitude
          * IntegralProduct(GridPoint(k - 1, shape, vz, vyx), mu, tables,
                            vz, vyx, 1)
        + psf_background]

\* ----------------------------------- external collaborators of the core

Range(v) == {v[i] : i \in 1..Len(v)}

\* np.min of a non-empty flat array.
MinOf(v) == CHOOSE x \in Range(v) : \A y \in Range(v) : x <= y

\* np.sort
Sorted(v) ==
    [i \in 1..Len(v) |->
        CHOOSE x \in Range(v) :
            /\ Cardinality({j \in 1..Len(v) : v[j] < x}) < i
            /\ i <= Cardinality({j \in 1..Len(v) : v[j] <= x})]

\* np.percentile(v, 100 * a) (linear interpolation) cast to the image's
\* element type, for a fraction a in [0, 1].
Percentile(v, a) ==
    LET n == Len(v)
        pos == a.num * (n - 1)
        lo == pos \div a.den
        hi == IF lo + 1 < n THEN lo + 1 ELSE lo
    IN  (Sorted(v)[lo + 1] * a.den
           + (pos % a.den) * (Sorted(v)[hi + 1] - Sorted(v)[lo + 1]))
        \div a.den

\* The image values at the spots.
SpotValues(img, sp) ==
    [i \in 1..Len(sp.rows) |-> img.data[Ravel(sp.rows[i], img.shape) + 1]]

ReferenceShape(nd) == [a \in 1..nd |-> EmptyReferenceSide]

\* build_reference_spot: the percentile-aggregated patch around the spots.
\* Its centre is the percentile of the spots' own pixels, the cells around
\* it hold the floor of the image.
BuildReferenceSpot(img, sp, a) ==
    LET shp == ReferenceShape(Len(img.shape))
        centre == (Size(shp) - 1) \div 2
        peak == Percentile(SpotValues(img, sp), a)
        floor == MinOf(img.data)
    IN  [dtype |-> img.dtype,
         shape |-> shp,
         data |-> IF Len(sp.rows) = 0
                  THEN [k \in 1..Size(shp) |-> 0]
                  ELSE [k \in 1..Size(shp) |->
                          IF k - 1 = centre THEN peak ELSE floor]]

\* get_sigma: the expected standard deviation, in pixels.
GetSigmaYX(vyx, pyx) == pyx \div vyx
GetSigmaZ(nd, vz, pz) == IF nd = 3 THEN Some(pz[1] \div vz[1]) ELSE None

\* The voxel integral at the centre of a gaussian: the product of the first
\* entry of each axis' table.
PeakIntegral(tables) == Prod([a \in 1..Len(tables) |-> tables[a][1]], 1)

\* modelize_spot: the gaussian fitted on the reference spot.
ModelizeSpot(ref, vz, vyx, pz, pyx) ==
    LET nd == Len(ref.shape)
        sz == GetSigmaZ(nd, vz, pz)
        syx == GetSigmaYX(vyx, pyx)
    IN  [sigma_z |-> sz,
         sigma_yx |-> syx,
         amplitude |-> (MaxOf(ref.data) - MinOf(ref.data))
                          \div PeakIntegral(Precompute(nd, sz, syx)),
         background |-> MinOf(ref.data)]

\* remove_background_gaussian: the image minus its large-scale estimate
\* (a flat floor), never negative.
RemoveBackground(img) ==
    [img EXCEPT !.data = [k \in 1..Len(img.data) |->
                             img.data[k] - MinOf(img.data)]]

\* ------------------------------------------------ binary floating point

\* The significant binary digits of a float64.
MantissaBits == 53

\* Natural numbers of any size: the binary digits, lowest first, without
\* leading zeros.
RECURSIVE BitsOf(_)
BitsOf(n) == IF n = 0 THEN <<>> ELSE <<n % 2>> \o BitsOf(n \div 2)

RECURSIVE NatOf(_)
NatOf(b) == IF b = <<>> THEN 0 ELSE b[1] + 2 * NatOf(Tail(b))

Trim(b) ==
    LET ones == {i \in 1..Len(b) : b[i] = 1}
    IN  IF ones = {} THEN <<>>
        ELSE SubSeq(b, 1, CHOOSE i \in ones : \A j \in ones : j <= i)

Zeros(n) == [i \in 1..n |-> 0]
ShiftLeft(b, n) == IF b = <<>> THEN <<>> ELSE Zeros(n) \o b
Bit(b, i) == IF i <= Len(b) THEN b[i] ELSE 0

RECURSIVE AddBetween(_, _, _, _, _)
\* The digits lo..hi of a + b and the carry out of them, for the carry
\* into them; the range is split in halves.
AddBetween(a, b, lo, hi, carry) ==
    IF lo > hi THEN [digits |-> <<>>, carry |-> carry]
    ELSE IF lo = hi
    THEN LET s == Bit(a, lo) + Bit(b, lo) + carry
         IN  [digits |-> <<s % 2>>, carry |-> s \div 2]
    ELSE LET mid == (lo + hi) \div 2
             low == AddBetween(a, b, lo, mid, carry)
             high == AddBetween(a, b, mid + 1, hi, low.carry)
         IN  [digits |-> low.digits \o high.digits, carry |-> high.carry]

BigAdd(a, b) ==
    LET n == IF Len(a) > Len(b) THEN Len(a) ELSE Len(b)
        s == AddBetween(a, b, 1, n, 0)
    IN  IF s.carry = 1 THEN Append(s.digits, 1) ELSE s.digits

RECURSIVE SubBetween(_, _, _, _, _)
\* The digits lo..hi of a - b and the borrow out of them.
SubBetween(a, b, lo, hi, borrow) ==
    IF lo > hi THEN [digits |-> <<>>, borrow |-> borrow]
    ELSE IF lo = hi
    THEN LET d == Bit(a, lo) - Bit(b, lo) - borrow
         IN  [digits |-> <<(d + 2) % 2>>, borrow |-> IF d < 0 THEN 1 ELSE 0]
    ELSE LET mid == (lo + hi) \div 2
             low == SubBetween(a, b, lo, mid, borrow)
             high == SubBetween(a, b, mid + 1, hi, low.borrow)
         IN  [digits |-> low.digits \o high.digits, borrow |-> high.borrow]

\* a - b for a >= b.
BigSub(a, b) == Trim(SubBetween(a, b, 1, Len(a), 0).digits)

BigGeq(a, b) ==
    IF Len(a) # Len(b) THEN Len(a) > Len(b)
    ELSE ~\E i \in 1..Len(a) :
            /\ a[i] < b[i]
            /\ \A j \in (i + 1)..Len(a) : a[j] = b[j]

RECURSIVE BigTimes(_, _)
\* k * b for a machine integer k.
BigTimes(k, b) ==
    IF k = 0 THEN <<>>
    ELSE BigAdd(IF k % 2 = 1 THEN b ELSE <<>>,
                ShiftLeft(BigTimes(k \div 2, b), 1))

RECURSIVE DivBetween(_, _, _, _, _)
\* Long division of a by b: the digits hi down to lo of a are brought down
\* onto the remainder r; the quotient digits found are returned lowest
\* first. The range is split in halves, the upper half first.
DivBetween(a, b, lo, hi, r) ==
    IF lo > hi THEN [quotient |-> <<>>, remainder |-> r]
    ELSE IF lo = hi
    THEN LET r2 == Trim(<<a[lo]>> \o r)
             fits == BigGeq(r2, b)
         IN  [quotient |-> <<IF fits THEN 1 ELSE 0>>,
              remainder |-> IF fits THEN BigSub(r2, b) ELSE r2]
    ELSE LET mid == (lo + hi) \div 2
             high == DivBetween(a, b, mid + 1, hi, r)
         IN  IF Len(high.quotient) # hi - mid THEN high
             ELSE LET low == DivBetween(a, b, lo, mid, high.remainder)
                  IN  [quotient |-> low.quotient \o high.quotient,
                       remainder |-> low.remainder]

BigDivMod(a, b) ==
    LET qr == DivBetween(a, b, 1, Len(a), <<>>)
    IN  [quotient |-> Trim(qr.quotient), remainder |-> qr.remainder]

\* A non-negative float64 is held as a mantissa m (digits as above, the
\* lowest one 1) and an exponent e: the number m * 2^e, and 0 as the empty
\* mantissa with the exponent 0. The range of the exponent of a float64 is
\* not modelled.

\* The float of the digits b times 2^e, the low zeros moved to the exponent.
FloatOfBits(b, e) ==
    IF \A i \in 1..Len(b) : b[i] = 0 THEN [m |-> <<>>, e |-> 0]
    ELSE LET low == CHOOSE i \in 1..Len(b) :
                       b[i] = 1 /\ \A j \in 1..(i - 1) : b[j] = 0
         IN  [m |-> SubSeq(b, low, Len(b)), e |-> e + low - 1]

\* Rounding of b * 2^e to MantissaBits significant digits, to nearest and
\* ties to even; inexact says that the exact value lies above b * 2^e.
RoundBits(b, e, inexact) ==
    LET d == Len(b) - MantissaBits
    IN  IF d <= 0 THEN FloatOfBits(b, e)
        ELSE LET kept == SubSeq(b, d + 1, Len(b))
                 rest == inexact \/ \E i \in 1..(d - 1) : b[i] = 1
                 up == b[d] = 1 /\ (rest \/ kept[1] = 1)
             IN  FloatOfBits(IF up THEN BigAdd(kept, <<1>>) ELSE kept, e + d)

FloatOfInt(n) == FloatOfBits(BitsOf(n), 0)

\* x / y in float64: the quotient of the mantissas is taken to two digits
\* more than a float64 keeps, then rounded.
FloatDivide(x, y) ==
    IF x.m = <<>> THEN [m |-> <<>>, e |-> 0]
    ELSE LET s == MantissaBits + 2 + Len(y.m) - Len(x.m)
             qr == BigDivMod(Zeros(s) \o x.m, y.m)
         IN  RoundBits(qr.quotient, x.e - y.e - s, qr.remainder # <<>>)

\* k * x in float64 for an integer k >= 0.
FloatTimesInt(k, x) == RoundBits(BigTimes(k, x.m), x.e, FALSE)

\* x + y in float64.
FloatAdd(x, y) ==
    IF x.m = <<>> THEN y
    ELSE IF y.m = <<>> THEN x
    ELSE LET lo == IF x.e < y.e THEN x.e ELSE y.e
         IN  RoundBits(BigAdd(Zeros(x.e - lo) \o x.m, Zeros(y.e - lo) \o y.m),
                       lo, FALSE)

\* The cast of a float64 to an integer: the digits after the point are cut.
FloatToInt(x) ==
    IF x.e >= 0 THEN NatOf(ShiftLeft(x.m, x.e))
    ELSE NatOf(SubSeq(x.m, 1 - x.e, Len(x.m)))

\* The float64 nearest to the fraction r >= 0.
Float64(r) == FloatDivide(FloatOfInt(r.num), FloatOfInt(r.den))

\* ------------------------------------------------------ get_dense_region

\* int(median_spot.max() * beta): the product is taken in float64 and the
\* digits after the point are cut, towards zero for a negative product.
Threshold(median_max, b) ==
    LET magnitude == FloatToInt(FloatTimesInt(Abs(median_max),
                                              Float64(Rat(Abs(b.num), b.den))))
    IN  IF (median_max < 0) # (b.num < 0) THEN 0 - magnitude ELSE magnitude

\* mask = image > threshold: the flat indices above the threshold.
Mask(img, t) == {k \in 0..(Len(img.data) - 1) : img.data[k + 1] > t}

\* Neighbours along one axis only.
AdjacentOrthogonal(k, j, shape) ==
    Sum([a \in 1..Len(shape) |->
           Abs(Unravel(k, shape)[a] - Unravel(j, shape)[a])]) <= 1

\* Full connectivity: neighbours differ by at most one on every axis.
Adjacent(k, j, shape) ==
    \A a \in 1..Len(shape) :
        Abs(Unravel(k, shape)[a] - Unravel(j, shape)[a]) <= 1

RECURSIVE Grow(_, _, _)
Grow(comp, mask, shape) ==
    LET more == {j \in mask \ comp : \E k \in comp : Adjacent(k, j, shape)}
    IN  IF more = {} THEN comp ELSE Grow(comp \cup more, mask, shape)

MinIndex(set) == CHOOSE k \in set : \A j \in set : k <= j

RECURSIVE Components(_, _)
\* The connected components, in the order of their first pixel in the
\* row-major scan.
Components(mask, shape) ==
    IF mask = {} THEN <<>>
    ELSE LET c == Grow({MinIndex(mask)}, mask, shape)
         IN  <<c>> \o Components(mask \ c, shape)

\* skimage.measure.label: the label of every pixel, 0 for the background.
Label(mask, shape) ==
    LET comps == Components(mask, shape)
    IN  [k \in 1..Size(shape) |->
            IF k - 1 \in mask
            THEN CHOOSE l \in 1..Len(comps) : k - 1 \in comps[l]
            ELSE 0]

\* _get_connected_region
GetConnectedRegion(img, t) == Label(Mask(img, t), img.shape)

NbLabels(cc) == IF Range(cc) = {} THEN 0
                ELSE CHOOSE l \in Range(cc) : \A m \in Range(cc) : m <= l

Pixels(cc, l) == {k \in 0..(Len(cc) - 1) : cc[k + 1] = l}

\* region.bbox: half-open, (min of every axis, max + 1 of every axis).
BBox(pixels, shape) ==
    LET n == Len(shape)
        coord(a) == {Unravel(k, shape)[a] : k \in pixels}
    IN  [i \in 1..(2 * n) |->
            IF i <= n
            THEN CHOOSE x \in coord(i) : \A y \in coord(i) : x <= y
            ELSE (CHOOSE x \in coord(i - n) : \A y \in coord(i - n) : y <= x)
                 + 1]

RECURSIVE SumOver(_, _)
SumOver(set, img) ==
    IF set = {} THEN 0
    ELSE LET k == MinIndex(set)
         IN  img.data[k + 1] + SumOver(set \ {k}, img)

\* skimage.measure.regionprops: one region per label, in label order.
RegionProps(cc, img) ==
    [l \in 1..NbLabels(cc) |->
        [bbox |-> BBox(Pixels(cc, l), img.shape),
         area |-> Cardinality(Pixels(cc, l)),
         mean_intensity |-> Rat(SumOver(Pixels(cc, l), img),
                                Cardinality(Pixels(cc, l)))]]

\* Regions of exactly two pixels.
AreaOfTwo(r) == r.area = 2

\* big_area = area >= 2
BigArea(r) == r.area >= 2

\* Whether a spot lies in a bounding box, its upper faces included.
SpotInClosedBox(spot, bbox) ==
    \A a \in 1..(Len(bbox) \div 2) :
        bbox[a] <= spot[a] /\ spot[a] <= bbox[(Len(bbox) \div 2) + a]

\* Whether a spot lies in a half-open bounding box.
SpotInBox(spot, bbox) ==
    LET n == Len(bbox) \div 2
    IN  \A a \in 1..n : bbox[a] <= spot[a] /\ spot[a] < bbox[n + a]

\* _filter_spot_out_candidate_regions: the spots outside every box ...
SpotsOutRegion(boxes, rows) ==
    LET out(r) == \A i \in 1..Len(boxes) : ~SpotInBox(r, boxes[i])
    IN  SelectSeq(rows, out)

\* ... and the largest extent of a box.
MaxRegionSize(boxes) ==
    LET extents(b) == {b[(Len(b) \div 2) + a] - b[a] :
                          a \in 1..(Len(b) \div 2)}
        sizes == {0} \cup UNION {extents(boxes[i]) : i \in 1..Len(boxes)}
    IN  CHOOSE x \in sizes : \A y \in sizes : y <= x

\* _filter_connected_region
FilterConnectedRegion(img, cc, rows) ==
    LET regions == RegionProps(cc, img)
        regions_filtered == SelectSeq(regions, BigArea)
        bbox_filtered == [i \in 1..Len(regions_filtered) |->
                             regions_filtered[i].bbox]
    IN  IF Len(regions) = 0
        THEN [regions_filtered |-> <<>>,
              spots_out_region |-> rows,
              max_region_size |-> 0]
        ELSE [regions_filtered |-> regions_filtered,
              spots_out_region |-> SpotsOutRegion(bbox_filtered, rows),
              max_region_size |-> MaxRegionSize(bbox_filtered)]

\* The checks without the upper limit of alpha.
CheckParametersNoUpper(a, b, g) ==
    IF RatBelow(a, 0) THEN "alpha"
    ELSE IF RatBelow(b, 0) THEN "beta"
    ELSE IF RatBelow(g, 0) THEN "gamma"
    ELSE "none"

\* The checks of alpha, beta and gamma of decompose_dense: the name of the
\* parameter the ValueError is about, or "none".
CheckParameters(a, b, g) ==
    IF RatBelow(a, 0) \/ RatAbove(a, 1) THEN "alpha"
    ELSE IF RatBelow(b, 0) THEN "beta"
    ELSE IF RatBelow(g, 0) THEN "gamma"
    ELSE "none"

\* The checks of the number of dimensions without the one of psf_z.
CheckDimensionsNoPsf(nd, vz, pz, ncol) ==
    IF nd = 3 /\ vz = None THEN "voxel_size_z"
    ELSE IF nd # ncol THEN "spots"
    ELSE "none"

\* The checks of the number of dimensions (decompose_dense and
\* get_dense_region).
CheckDimensions(nd, vz, pz, ncol) ==
    IF nd = 3 /\ vz = None THEN "voxel_size_z"
    ELSE IF nd = 3 /\ pz = None THEN "psf_z"
    ELSE IF nd # ncol THEN "spots"
    ELSE "none"

\* ------------------------------------------------------------------ state

VARIABLES
    pc,                    \* position in the running function
    entry,                 \* the function that was called
    warned,                \* warnings emitted so far (warnings.warn)
    result,                \* what the call returned or raised
    \* arguments of decompose_dense / get_dense_region
    image, spots, voxel_size_z, voxel_size_yx, psf_z, psf_yx, alpha, beta,
    gamma,
    \* locals of get_dense_region
    threshold, connected_regions,
    \* locals of decompose_dense
    image_denoised, reference_spot, parameters_fitted,
    regions_to_decompose, spots_out_regions, region_size,
    precomputed_gaussian, i_region, spots_in_regions, dense_regions,
    \* arguments and locals of _gaussian_mixture_2d / _gaussian_mixture_3d
    region, sigma_z, sigma_yx, amplitude, background, limit_gaussian,
    image_region_raw, simulation, residual, ssr, diff_ssr, nb_gaussian,
    best_simulation, positions_gaussian

ctlVars == <<pc, entry, warned, result>>
argVars == <<image, spots, voxel_size_z, voxel_size_yx, psf_z, psf_yx, alpha,
             beta, gamma>>
denseVars == <<threshold, connected_regions>>
orchVars == <<image_denoised, reference_spot, parameters_fitted,
              regions_to_decompose, spots_out_regions, region_size,
              precomputed_gaussian, i_region, spots_in_regions,
              dense_regions>>
fitArgVars == <<region, sigma_z, sigma_yx, amplitude, limit_gaussian>>
fitVars == <<background, image_region_raw, simulation, residual, ssr,
             diff_ssr, nb_gaussian, best_simulation, positions_gaussian>>
vars == <<ctlVars, argVars, denseVars, orchVars, fitArgVars, fitVars>>

NoResult == [kind |-> "none", error |-> "none", spots |-> <<>>,
             dense_regions |-> <<>>, spots_out_region |-> <<>>, max_size |-> 0,
             reference_spot |-> NoArray, positions |-> <<>>,
             simulation |-> NoArray]

\* ---------------------------------------- _gaussian_mixture_2d / _3d

\* The shape and element type of image_region, the patch of the region.
ImageRegionShape == BoxShape(region.bbox)
ImageRegionDType == image_denoised.dtype

\* The patch of region r and the start of the loop.
FitEnter(r) ==
    /\ image_region_raw' = Crop(image_denoised, r.bbox).data
    /\ simulation' = [k \in 1..Size(BoxShape(r.bbox)) |-> 0]
    /\ residual' = image_region_raw'
    /\ ssr' = SumSq(image_region_raw')
    /\ diff_ssr' = -1
    /\ nb_gaussian' = 0
    /\ best_simulation' = simulation'
    /\ positions_gaussian' = <<>>

\* The condition of the loop going on also when the SSR did not change.
LoopConditionNotWorse(diff, nb, limit) == diff <= 0 \/ nb = limit

\* The condition of the while loop.
LoopCondition(diff, nb, limit) == diff < 0 \/ nb = limit

\* One pass through the body of the while loop.
FitStep ==
    /\ pc = "loop"
    /\ LoopCondition(diff_ssr, nb_gaussian, limit_gaussian)
    /\ LET position_gaussian == ArgMax(residual)
           mu == GridPoint(position_gaussian, ImageRegionShape, voxel_size_z,
                           voxel_size_yx)
           g == Gaussian(ImageRegionShape, mu, voxel_size_z, voxel_size_yx,
                         amplitude, background, precomputed_gaussian)
       IN  /\ positions_gaussian' = Append(positions_gaussian, mu)
           /\ simulation' = [k \in 1..Len(simulation) |-> simulation[k] + g[k]]
    /\ residual' = [k \in 1..Len(simulation) |->
                       image_region_raw[k] - simulation'[k]]
    /\ ssr' = SumSq(residual')
    /\ diff_ssr' = ssr' - ssr
    /\ nb_gaussian' = nb_gaussian + 1
    /\ background' = 0
    /\ best_simulation' = IF diff_ssr' < 0 THEN simulation' ELSE best_simulation
    /\ UNCHANGED <<image_region_raw, ctlVars, argVars, denseVars, orchVars,
                   fitArgVars>>

\* The discard test with its lower bound off by one, downwards and upwards.
DiscardLastFromFirst(nb, limit) == 0 < nb /\ nb < limit
DiscardLastFromThird(nb, limit) == 2 < nb /\ nb < limit

\* Whether the last placement is popped after the loop.
DiscardLast(nb, limit) == 1 < nb /\ nb < limit

\* Whether the "decomposition was stopped early" warning is emitted.
WarnLimit(nb, limit) == ~DiscardLast(nb, limit) /\ nb = limit

\* Leaving the loop: the discard of the last placement or the warning.
FitExit ==
    /\ pc = "loop"
    /\ ~LoopCondition(diff_ssr, nb_gaussian, limit_gaussian)
    /\ positions_gaussian' =
          IF DiscardLast(nb_gaussian, limit_gaussian)
          THEN SubSeq(positions_gaussian, 1, Len(positions_gaussian) - 1)
          ELSE positions_gaussian
    /\ warned' = IF WarnLimit(nb_gaussian, limit_gaussian)
                 THEN Append(warned, "limit_gaussian")
                 ELSE warned
    /\ pc' = "clip"
    /\ UNCHANGED <<entry, result, argVars, denseVars, orchVars, fitArgVars,
                   background,
                   image_region_raw, simulation, residual, ssr, diff_ssr,
                   nb_gaussian, best_simulation>>

\* np.iinfo(dtype).max; np.iinfo raises ValueError on a float dtype.
IInfoDefined(dtype) == dtype \in IntegerDTypes
IInfoMax(dtype) == IF dtype = "uint8" THEN 255 ELSE 65535

\* np.clip(best_simulation, 0, max_value_dtype).astype(dtype)
ClipCast(v, dtype) ==
    [k \in 1..Len(v) |->
        IF v[k] < 0 THEN 0
        ELSE IF v[k] > IInfoMax(dtype) THEN IInfoMax(dtype) ELSE v[k]]

\* The reshape, clip and cast of the best simulation, and the return.
FitClip ==
    /\ pc = "clip"
    /\ IF IInfoDefined(ImageRegionDType)
       THEN /\ best_simulation' = ClipCast(best_simulation, ImageRegionDType)
            /\ IF entry = "_gaussian_mixture"
               THEN /\ pc' = "done"
                    /\ result' =
                         [NoResult EXCEPT
                            !.kind = "returned",
                            !.positions = positions_gaussian,
                            !.simulation =
                               [dtype |-> ImageRegionDType,
                                shape |-> ImageRegionShape,
                                data |-> ClipCast(best_simulation,
                                                  ImageRegionDType)]]
               ELSE /\ pc' = "reconcile"
                    /\ UNCHANGED result
       ELSE /\ pc' = "raised"
            /\ result' = [NoResult EXCEPT !.kind = "ValueError"]
            /\ UNCHANGED best_simulation
    /\ UNCHANGED <<entry, warned, argVars, denseVars, orchVars, fitArgVars,
                   background,
                   image_region_raw, simulation, residual, ssr, diff_ssr,
                   nb_gaussian, positions_gaussian>>

\* ---------------------------------------------------- get_dense_region

argRest == <<image, spots, voxel_size_yx, psf_yx, alpha, beta, gamma>>

\* The checks of beta and of the number of dimensions of get_dense_region.
DenseCheckError(b, nd, vz, pz, ncol) ==
    IF RatBelow(b, 0) THEN "beta" ELSE CheckDimensions(nd, vz, pz, ncol)

DenseCheck ==
    /\ pc = "dense_check"
    /\ IF DenseCheckError(beta, Len(image_denoised.shape), voxel_size_z,
                          psf_z, spots.ncol) # "none"
       THEN /\ pc' = "raised"
            /\ result' =
                 [NoResult EXCEPT
                    !.kind = "ValueError",
                    !.error = DenseCheckError(beta,
                                              Len(image_denoised.shape),
                                              voxel_size_z, psf_z,
                                              spots.ncol)]
            /\ UNCHANGED <<voxel_size_z, psf_z>>
       ELSE /\ pc' = "dense_threshold"
            /\ UNCHANGED result
            /\ IF Len(image_denoised.shape) = 2
               THEN voxel_size_z' = None /\ psf_z' = None
               ELSE UNCHANGED <<voxel_size_z, psf_z>>
    /\ UNCHANGED <<entry, warned, argRest, denseVars, orchVars, fitArgVars,
                   fitVars>>

\* The median spot and the threshold.
DenseThreshold ==
    /\ pc = "dense_threshold"
    /\ threshold' =
          Threshold(MaxOf(BuildReferenceSpot(image_denoised, spots,
                                             Rat(1, 2)).data),
                    beta)
    /\ pc' = "dense_connected"
    /\ UNCHANGED <<entry, warned, result, argVars, connected_regions,
                   orchVars, fitArgVars, fitVars>>

DenseConnected ==
    /\ pc = "dense_connected"
    /\ connected_regions' = GetConnectedRegion(image_denoised, threshold)
    /\ pc' = "dense_filter"
    /\ UNCHANGED <<entry, warned, result, argVars, threshold, orchVars,
                   fitArgVars, fitVars>>

DenseFilter ==
    /\ pc = "dense_filter"
    /\ LET f == FilterConnectedRegion(image_denoised, connected_regions,
                                      spots.rows)
       IN  /\ regions_to_decompose' = f.regions_filtered
           /\ spots_out_regions' = f.spots_out_region
           /\ region_size' = f.max_region_size
    /\ IF entry = "get_dense_region"
       THEN /\ pc' = "done"
            /\ result' = [NoResult EXCEPT
                            !.kind = "returned",
                            !.dense_regions = regions_to_decompose',
                            !.spots_out_region = spots_out_regions',
                            !.max_size = region_size']
       ELSE /\ pc' = "regions"
            /\ UNCHANGED result
    /\ UNCHANGED <<entry, warned, argVars, denseVars, image_denoised,
                   reference_spot, parameters_fitted, precomputed_gaussian,
                   i_region, spots_in_regions, dense_regions, fitArgVars,
                   fitVars>>

\* ------------------------------------------------------- decompose_dense

\* The checks of the parameters and of the number of dimensions.
Validate ==
    /\ pc = "check"
    /\ LET e1 == CheckParameters(alpha, beta, gamma)
           e2 == CheckDimensions(Len(image.shape), voxel_size_z, psf_z,
                                 spots.ncol)
       IN  IF e1 # "none" \/ e2 # "none"
           THEN /\ pc' = "raised"
                /\ result' = [NoResult EXCEPT
                                !.kind = "ValueError",
                                !.error = IF e1 # "none" THEN e1 ELSE e2]
                /\ UNCHANGED <<voxel_size_z, psf_z>>
           ELSE /\ pc' = "checked"
                /\ UNCHANGED result
                /\ IF Len(image.shape) = 2
                   THEN voxel_size_z' = None /\ psf_z' = None
                   ELSE UNCHANGED <<voxel_size_z, psf_z>>
    /\ UNCHANGED <<entry, warned, argRest, denseVars, orchVars, fitArgVars,
                   fitVars>>

\* An array of dense regions with a row for the region of the first
\* index only: (1, ndim + 4).
OneEmptyRegion(nd) == [shape |-> <<1, nd + 4>>, rows |-> << <<>> >>]

\* No dense region: np.array([], dtype=np.int64).reshape((0, ndim + 4)).
EmptyRegions(nd) == [shape |-> <<0, nd + 4>>, rows |-> <<>>]

\* A patch of ones in place of the patch of zeros.
ReferenceOnes(dtype, nd) ==
    [dtype |-> dtype, shape |-> ReferenceShape(nd),
     data |-> [k \in 1..Size(ReferenceShape(nd)) |-> 1]]

\* np.zeros((5,) * ndim, dtype=image.dtype)
ReferenceZeros(dtype, nd) ==
    [dtype |-> dtype, shape |-> ReferenceShape(nd),
     data |-> [k \in 1..Size(ReferenceShape(nd)) |-> 0]]

\* The three values decompose_dense returns.
Returned(sp, regions, ref) ==
    [NoResult EXCEPT !.kind = "returned", !.spots = sp,
                     !.dense_regions = regions, !.reference_spot = ref]

\* The case where no spot was detected.
NoSpotDetected ==
    /\ pc = "checked"
    /\ Len(spots.rows) = 0
    /\ result' =
          Returned(spots.rows, EmptyRegions(Len(image.shape)),
                   ReferenceZeros(image.dtype, Len(image.shape)))
    /\ pc' = "done"
    /\ UNCHANGED <<entry, warned, argVars, denseVars, orchVars, fitArgVars,
                   fitVars>>

\* The denoising of the image (none when gamma is 0).
Denoise ==
    /\ pc = "checked"
    /\ Len(spots.rows) # 0
    /\ image_denoised' =
          IF RatAbove(gamma, 0) THEN RemoveBackground(image) ELSE image
    /\ pc' = "reference"
    /\ UNCHANGED <<entry, warned, result, argVars, denseVars, reference_spot,
                   parameters_fitted, regions_to_decompose, spots_out_regions,
                   region_size, precomputed_gaussian, i_region,
                   spots_in_regions, dense_regions, fitArgVars, fitVars>>

BuildReference ==
    /\ pc = "reference"
    /\ reference_spot' = BuildReferenceSpot(image_denoised, spots, alpha)
    /\ pc' = "reference_built"
    /\ UNCHANGED <<entry, warned, result, argVars, denseVars, image_denoised,
                   parameters_fitted, regions_to_decompose, spots_out_regions,
                   region_size, precomputed_gaussian, i_region,
                   spots_in_regions, dense_regions, fitArgVars, fitVars>>

\* The case with an empty frame as reference spot.
EmptyReference ==
    /\ pc = "reference_built"
    /\ Sum(reference_spot.data) = 0
    /\ result' = Returned(spots.rows, EmptyRegions(Len(image.shape)),
                          reference_spot)
    /\ pc' = "done"
    /\ UNCHANGED <<entry, warned, argVars, denseVars, orchVars, fitArgVars,
                   fitVars>>

\* The fit of a gaussian on the reference spot, then get_dense_region.
Modelize ==
    /\ pc = "reference_built"
    /\ Sum(reference_spot.data) # 0
    /\ parameters_fitted' =
          ModelizeSpot(reference_spot, voxel_size_z, voxel_size_yx, psf_z,
                       psf_yx)
    /\ pc' = "dense_check"
    /\ UNCHANGED <<entry, warned, result, argVars, denseVars, image_denoised,
                   reference_spot, regions_to_decompose, spots_out_regions,
                   region_size, precomputed_gaussian, i_region,
                   spots_in_regions, dense_regions, fitArgVars, fitVars>>

\* The case where no region was detected.
NoRegionDetected ==
    /\ pc = "regions"
    /\ Len(regions_to_decompose) = 0
    /\ result' = Returned(spots.rows, EmptyRegions(Len(image.shape)),
                          reference_spot)
    /\ pc' = "done"
    /\ UNCHANGED <<entry, warned, argVars, denseVars, orchVars, fitArgVars,
                   fitVars>>

\* The precomputed gaussian values and the start of
\* simulate_gaussian_mixture.
PrecomputeGaussian ==
    /\ pc = "regions"
    /\ Len(regions_to_decompose) # 0
    /\ precomputed_gaussian' =
          Precompute(Len(image_denoised.shape), parameters_fitted.sigma_z,
                     parameters_fitted.sigma_yx)
    /\ i_region' = 0
    /\ spots_in_regions' = <<>>
    /\ dense_regions' = <<>>
    /\ pc' = "simulate_check"
    /\ UNCHANGED <<entry, warned, result, argVars, denseVars, image_denoised,
                   reference_spot, parameters_fitted, regions_to_decompose,
                   spots_out_regions, region_size, fitArgVars, fitVars>>

\* The checks of simulate_gaussian_mixture: the background, then the number
\* of dimensions.
SimulateCheckError(nd, vz, sz, bg) ==
    IF bg < 0 THEN "background"
    ELSE IF nd = 3 /\ vz = None THEN "voxel_size_z"
    ELSE IF nd = 3 /\ sz = None THEN "sigma_z"
    ELSE "none"

\* simulate_gaussian_mixture: the checks of its parameters, which are held
\* in parameters_fitted; for a 2-d image voxel_size_z and sigma_z are set
\* to None. The types check_parameter asks for are not modelled.
SimulateCheck ==
    /\ pc = "simulate_check"
    /\ LET nd == Len(image_denoised.shape)
           e == SimulateCheckError(nd, voxel_size_z,
                                   parameters_fitted.sigma_z,
                                   parameters_fitted.background)
       IN  IF e # "none"
           THEN /\ pc' = "raised"
                /\ result' = [NoResult EXCEPT !.kind = "ValueError",
                                              !.error = e]
                /\ UNCHANGED <<voxel_size_z, parameters_fitted>>
           ELSE /\ pc' = "simulate"
                /\ UNCHANGED result
                /\ IF nd = 2
                   THEN /\ voxel_size_z' = None
                        /\ parameters_fitted' =
                              [parameters_fitted EXCEPT !.sigma_z = None]
                   ELSE UNCHANGED <<voxel_size_z, parameters_fitted>>
    /\ UNCHANGED <<entry, warned, image, spots, voxel_size_yx, psf_z, psf_yx,
                   alpha, beta, gamma, denseVars, image_denoised,
                   reference_spot, regions_to_decompose, spots_out_regions,
                   region_size, precomputed_gaussian, i_region,
                   spots_in_regions, dense_regions, fitArgVars, fitVars>>

\* The call of the fit with the background left by the previous fit.
SimulateRegionSharedBackground ==
    /\ pc = "simulate"
    /\ i_region < Len(regions_to_decompose)
    /\ region' = regions_to_decompose[i_region + 1]
    /\ sigma_z' = parameters_fitted.sigma_z
    /\ sigma_yx' = parameters_fitted.sigma_yx
    /\ amplitude' = parameters_fitted.amplitude
    /\ background' = IF i_region = 0 THEN parameters_fitted.background
                     ELSE background
    /\ limit_gaussian' = LimitDefault
    /\ FitEnter(region')
    /\ pc' = "loop"
    /\ UNCHANGED <<entry, warned, result, argVars, denseVars, orchVars>>

\* simulate_gaussian_mixture: the call of the fit on the next region.
SimulateRegion ==
    /\ pc = "simulate"
    /\ i_region < Len(regions_to_decompose)
    /\ region' = regions_to_decompose[i_region + 1]
    /\ sigma_z' = parameters_fitted.sigma_z
    /\ sigma_yx' = parameters_fitted.sigma_yx
    /\ amplitude' = parameters_fitted.amplitude
    /\ background' = parameters_fitted.background
    /\ limit_gaussian' = LimitDefault
    /\ FitEnter(region')
    /\ pc' = "loop"
    /\ UNCHANGED <<entry, warned, result, argVars, denseVars, orchVars>>

\* A fitted coordinate of axis a back in the image: the physical coordinate
\* divided by the voxel size, plus the minimum of the box, cast to int64.
ToImage(x, a, nd, vz, vyx, bbox) == (x \div VoxelAxis(nd, a, vz, vyx)) + bbox[a]

\* The spots of the region in the image, each with the region's index.
SpotsInRegion(positions, nd, vz, vyx, bbox, i) ==
    [j \in 1..Len(positions) |->
        [a \in 1..(nd + 1) |->
            IF a <= nd THEN ToImage(positions[j][a], a, nd, vz, vyx, bbox)
            ELSE i]]

\* The row of the region with the last fitted spot in place of the first.
RegionRowLast(positions, nd, vz, vyx, r, i) ==
    [a \in 1..nd |->
        (positions[Len(positions)][a] \div VoxelAxis(nd, a, vz, vyx))
          + r.bbox[a]]
    \o <<Len(positions), r.area,
         ToInt64(r.mean_intensity), i>>

\* The row of the region counting the discarded last placement as well.
RegionRowAllPlacements(positions, nd, vz, vyx, r, i) ==
    [a \in 1..nd |->
        (positions[1][a] \div VoxelAxis(nd, a, vz, vyx)) + r.bbox[a]]
    \o <<Len(positions) + 1, r.area,
         ToInt64(r.mean_intensity), i>>

\* The row of the region in dense_regions, cast to int64: the first fitted
\* spot, the number of spots, the area, the mean intensity, the index.
RegionRow(positions, nd, vz, vyx, r, i) ==
    [a \in 1..nd |-> ToImage(positions[1][a], a, nd, vz, vyx, r.bbox)]
    \o <<Len(positions), r.area,
         ToInt64(r.mean_intensity), i>>

\* simulate_gaussian_mixture: the coordinates of the fitted spots and of
\* the region in the original image.
Reconcile ==
    /\ pc = "reconcile"
    /\ spots_in_regions' =
          spots_in_regions
          \o SpotsInRegion(positions_gaussian, Len(image_denoised.shape),
                           voxel_size_z, voxel_size_yx, region.bbox, i_region)
    /\ dense_regions' =
          Append(dense_regions,
                 RegionRow(positions_gaussian, Len(image_denoised.shape),
                           voxel_size_z, voxel_size_yx, region, i_region))
    /\ i_region' = i_region + 1
    /\ pc' = "simulate"
    /\ UNCHANGED <<entry, warned, result, argVars, denseVars, image_denoised,
                   reference_spot, parameters_fitted, regions_to_decompose,
                   spots_out_regions, region_size, precomputed_gaussian,
                   fitArgVars, fitVars>>

\* Whether no more spots are detected after the decomposition than before.
NotMoreSpots(nb_out, nb_in, nb_spots) == nb_out + nb_in <= nb_spots

\* Whether fewer spots are detected after the decomposition than before.
LessSpots(nb_out, nb_in, nb_spots) == nb_out + nb_in < nb_spots

\* The rows without their first column.
StripFirst(rows, nd) == [j \in 1..Len(rows) |-> SubSeq(rows[j], 2, nd + 1)]

\* spots_in_regions[:, :ndim]
StripRegion(rows, nd) == [j \in 1..Len(rows) |-> SubSeq(rows[j], 1, nd)]

\* The end of simulate_gaussian_mixture, the warning and the merge of the
\* outside and inside spots.
MergeSpots ==
    /\ entry = "decompose_dense"
    /\ pc = "simulate"
    /\ i_region = Len(regions_to_decompose)
    /\ warned' = IF LessSpots(Len(spots_out_regions), Len(spots_in_regions),
                              Len(spots.rows))
                 THEN Append(warned, "less_spots")
                 ELSE warned
    /\ result' =
          Returned(spots_out_regions
                     \o StripRegion(spots_in_regions,
                                    Len(image_denoised.shape)),
                   [shape |-> <<Len(dense_regions), Len(dense_regions[1])>>,
                    rows |-> dense_regions],
                   reference_spot)
    /\ pc' = "done"
    /\ UNCHANGED <<entry, argVars, denseVars, orchVars, fitArgVars, fitVars>>

\* ------------------------------------------------------- specifications

\* The locals of the three functions before they are assigned.
LocalsUnset ==
    /\ threshold = 0
    /\ connected_regions = <<>>
    /\ reference_spot = NoArray
    /\ parameters_fitted = NoParameters
    /\ regions_to_decompose = <<>>
    /\ spots_out_regions = <<>>
    /\ region_size = 0
    /\ precomputed_gaussian = <<>>
    /\ i_region = 0
    /\ spots_in_regions = <<>>
    /\ dense_regions = <<>>

FitUnset ==
    /\ region = NoRegion
    /\ sigma_z = None
    /\ sigma_yx = 0
    /\ amplitude = 0
    /\ background = 0
    /\ limit_gaussian = 0
    /\ image_region_raw = <<>>
    /\ simulation = <<>>
    /\ residual = <<>>
    /\ ssr = 0
    /\ diff_ssr = 0
    /\ nb_gaussian = 0
    /\ best_simulation = <<>>
    /\ positions_gaussian = <<>>

\* Largest intensity and number of spots of the images handed to
\* decompose_dense and get_dense_region.
MaxIntensity == 2
MaxSpots == 1

Alphas == {Rat(-1, 2), Rat(0, 1), Rat(1, 1), Rat(3, 2)}
Betas == {Rat(-1, 1), Rat(0, 1), Rat(1, 1)}
Gammas == {Rat(-1, 1), Rat(0, 1), Rat(5, 1)}
PsfSizes == {2}

DecomposeDTypes == {"uint8", "float64"}

ImageShapes == {<<1, 3>>, <<1, 1, 3>>}
ImagesOf(shapes, m) ==
    UNION {[dtype : DecomposeDTypes, shape : {shp},
            data : [1..Size(shp) -> 0..m]] : shp \in shapes}
Images(m) == ImagesOf(ImageShapes, m)

\* Coordinates with ncol columns along the last axis of an image of width w.
Coordinates(w, ncol) == {[a \in 1..ncol |-> IF a = ncol THEN x ELSE 0] :
                           x \in 0..(w - 1)}
RECURSIVE SeqsUpTo(_, _)
SeqsUpTo(set, n) ==
    IF n = 0 THEN {<<>>}
    ELSE SeqsUpTo(set, n - 1)
         \cup {Append(q, x) : q \in {r \in SeqsUpTo(set, n - 1) :
                                       Len(r) = n - 1}, x \in set}
SpotArrays(w, n) ==
    UNION {[ncol : {nc}, rows : SeqsUpTo(Coordinates(w, nc), n)] :
             nc \in {2, 3}}

Init ==
    /\ entry = "decompose_dense"
    /\ pc = "check"
    /\ warned = <<>>
    /\ result = NoResult
    /\ image \in Images(MaxIntensity)
    /\ spots \in SpotArrays(image.shape[Len(image.shape)], MaxSpots)
    /\ voxel_size_z \in {None} \cup {Some(v) : v \in VoxelSizes}
    /\ psf_z \in {None} \cup {Some(v) : v \in PsfSizes}
    /\ voxel_size_yx \in VoxelSizes
    /\ psf_yx \in PsfSizes
    /\ alpha \in Alphas
    /\ beta \in Betas
    /\ gamma \in Gammas
    /\ image_denoised = NoArray
    /\ LocalsUnset
    /\ FitUnset

Next ==
    \/ Validate
    \/ NoSpotDetected
    \/ Denoise
    \/ BuildReference
    \/ EmptyReference
    \/ Modelize
    \/ DenseCheck
    \/ DenseThreshold
    \/ DenseConnected
    \/ DenseFilter
    \/ NoRegionDetected
    \/ PrecomputeGaussian
    \/ SimulateCheck
    \/ SimulateRegion
    \/ FitStep
    \/ FitExit
    \/ FitClip
    \/ Reconcile
    \/ MergeSpots

Spec == Init /\ [][Next]_vars

\* --------------------------- get_dense_region called on its own (SpecDetect)

DetectShapes == {<<2, 2>>, <<1, 1, 3>>}
DetectBetas == {Rat(-1, 1), Rat(0, 1), Rat(29, 100), Rat(1, 2), Rat(1, 1),
                Rat(3, 2), Rat(2, 1)}

\* The images of the detector: the unsigned ones, float64 images, which can
\* hold negative values, and images with a bright pixel, on which the
\* product with beta = 0.29 is not a whole number.
DetectImages ==
    UNION {[dtype : {"uint8"}, shape : {shp},
            data : [1..Size(shp) -> 0..MaxIntensity]]
           \cup [dtype : {"float64"}, shape : {shp},
                 data : [1..Size(shp) -> -1..MaxIntensity]] :
           shp \in DetectShapes}
    \cup [dtype : {"uint8"}, shape : {<<1, 1, 3>>},
          data : [1..3 -> {28, 29, 100}]]

\* The coordinates of the pixels of an image.
Cells(shape) == {Unravel(k, shape) : k \in 0..(Size(shape) - 1)}

\* Arrays of spots in the image, and an empty array with the number of
\* columns of the other number of dimensions.
DetectSpots(shape, n) ==
    {[ncol |-> Len(shape), rows |-> q] : q \in SeqsUpTo(Cells(shape), n)}
    \cup {[ncol |-> 5 - Len(shape), rows |-> <<>>]}

InitDetect ==
    /\ entry = "get_dense_region"
    /\ pc = "dense_check"
    /\ warned = <<>>
    /\ result = NoResult
    /\ image \in DetectImages
    /\ image_denoised = image
    /\ spots \in DetectSpots(image.shape, MaxSpots)
    /\ voxel_size_z \in {None} \cup {Some(v) : v \in VoxelSizes}
    /\ psf_z \in {None} \cup {Some(v) : v \in PsfSizes}
    /\ voxel_size_yx \in VoxelSizes
    /\ psf_yx \in PsfSizes
    /\ alpha = Rat(1, 2)
    /\ beta \in DetectBetas
    /\ gamma = Rat(5, 1)
    /\ LocalsUnset
    /\ FitUnset

NextDetect == DenseCheck \/ DenseThreshold \/ DenseConnected \/ DenseFilter

SpecDetect == InitDetect /\ [][NextDetect]_vars

\* --------------------- get_dense_region on wider images (SpecRegions)

\* Largest number of spots of the images with several regions.
MaxDenseSpots == 2

RegionShapes == {<<1, 5>>}
RegionDTypes == {"uint16"}
RegionBetas == {Rat(-1, 1), Rat(0, 1), Rat(1, 2), Rat(1, 1), Rat(2, 1)}

RegionImages ==
    UNION {[dtype : RegionDTypes, shape : {shp},
            data : [1..Size(shp) -> 0..MaxIntensity]] : shp \in RegionShapes}

InitRegions ==
    /\ entry = "get_dense_region"
    /\ pc = "dense_check"
    /\ warned = <<>>
    /\ result = NoResult
    /\ image \in RegionImages
    /\ image_denoised = image
    /\ spots \in {[ncol |-> Len(image.shape), rows |-> q] :
                    q \in SeqsUpTo(Cells(image.shape), MaxDenseSpots)}
    /\ voxel_size_z = None
    /\ psf_z = None
    /\ voxel_size_yx \in VoxelSizes
    /\ psf_yx \in PsfSizes
    /\ alpha = Rat(1, 2)
    /\ beta \in RegionBetas
    /\ gamma = Rat(5, 1)
    /\ LocalsUnset
    /\ FitUnset

SpecRegions == InitRegions /\ [][NextDetect]_vars

\* ------------------- decompose_dense on wider images (SpecDense)

DenseShapes == {<<1, 5>>, <<1, 1, 4>>}
DenseDTypes == {"uint8"}
DenseImages ==
    UNION {[dtype : DenseDTypes, shape : {shp},
            data : [1..Size(shp) -> 0..MaxIntensity]] : shp \in DenseShapes}
DenseAlphas == {Rat(1, 2), Rat(1, 1)}
DenseBetas == {Rat(0, 1), Rat(1, 1)}
DenseVoxelSizesZ == {3}
DensePsfSizesZ == {3}

InitDense ==
    /\ entry = "decompose_dense"
    /\ pc = "check"
    /\ warned = <<>>
    /\ result = NoResult
    /\ image \in DenseImages
    /\ spots \in {[ncol |-> Len(image.shape), rows |-> q] :
                    q \in SeqsUpTo(Cells(image.shape), MaxDenseSpots)}
    /\ voxel_size_z \in IF Len(image.shape) = 3
                        THEN {Some(v) : v \in DenseVoxelSizesZ} ELSE {None}
    /\ psf_z \in IF Len(image.shape) = 3
                 THEN {Some(v) : v \in DensePsfSizesZ} ELSE {None}
    /\ voxel_size_yx \in VoxelSizes
    /\ psf_yx \in PsfSizes
    /\ alpha \in DenseAlphas
    /\ beta \in DenseBetas
    /\ gamma = Rat(5, 1)
    /\ image_denoised = NoArray
    /\ LocalsUnset
    /\ FitUnset

SpecDense == InitDense /\ [][Next]_vars

\* ------------- decompose_dense without denoising (SpecRaw): gamma = 0

\* Images above a floor of 1, which the fitted background then is, the
\* image of zeros, and float64 images with negative pixels, whose fitted
\* background is negative.
RawShapes == {<<1, 6>>}
RawLevels == {1, 2, 3}
RawImages ==
    UNION {[dtype : DenseDTypes, shape : {shp},
            data : [1..Size(shp) -> RawLevels]
                     \cup {[k \in 1..Size(shp) |-> 0]}]
           \cup [dtype : {"float64"}, shape : {shp},
                 data : [1..Size(shp) -> {-1, 2}]] : shp \in RawShapes}

InitRaw ==
    /\ entry = "decompose_dense"
    /\ pc = "check"
    /\ warned = <<>>
    /\ result = NoResult
    /\ image \in RawImages
    /\ spots \in {[ncol |-> Len(image.shape), rows |-> q] :
                    q \in SeqsUpTo(Cells(image.shape), MaxSpots)}
    /\ voxel_size_z = None
    /\ psf_z = None
    /\ voxel_size_yx \in VoxelSizes
    /\ psf_yx \in PsfSizes
    /\ alpha \in DenseAlphas
    /\ beta \in DenseBetas
    /\ gamma = Rat(0, 1)
    /\ image_denoised = NoArray
    /\ LocalsUnset
    /\ FitUnset

SpecRaw == InitRaw /\ [][Next]_vars

\* ------------- get_dense_region on images of two levels (SpecBoxes)

BoxShapes == {<<3, 4>>}
BoxImages ==
    UNION {[dtype : RegionDTypes, shape : {shp},
            data : [1..Size(shp) -> {0, 1}]] : shp \in BoxShapes}

InitBoxes ==
    /\ entry = "get_dense_region"
    /\ pc = "dense_check"
    /\ warned = <<>>
    /\ result = NoResult
    /\ image \in BoxImages
    /\ image_denoised = image
    /\ spots \in {[ncol |-> Len(image.shape), rows |-> q] :
                    q \in SeqsUpTo(Cells(image.shape), MaxSpots)}
    /\ voxel_size_z = None
    /\ psf_z = None
    /\ voxel_size_yx \in VoxelSizes
    /\ psf_yx \in PsfSizes
    /\ alpha = Rat(1, 2)
    /\ beta = Rat(0, 1)
    /\ gamma = Rat(5, 1)
    /\ LocalsUnset
    /\ FitUnset

SpecBoxes == InitBoxes /\ [][NextDetect]_vars

\* ------------------------------------ the fit called on its own (SpecFit)

FitImages ==
    {[dtype |-> d, shape |-> s, data |-> v] :
        d \in DTypes, s \in FitShapes, v \in [1..3 -> 0..MaxPix]}

\* Wider patches: peaks of the largest value on a floor of zeros.
FitWideImages ==
    [dtype : DTypes, shape : {<<1, 6>>}, data : [1..6 -> {0, MaxPix}]]

InitFit ==
    /\ entry = "_gaussian_mixture"
    /\ pc = "loop"
    /\ warned = <<>>
    /\ result = NoResult
    /\ image_denoised \in FitImages \cup FitWideImages
    /\ image = image_denoised
    /\ region = [bbox |-> FullBox(image_denoised.shape),
                 area |-> Size(image_denoised.shape),
                 mean_intensity |-> Rat(0, 1)]
    /\ voxel_size_yx \in VoxelSizes
    /\ voxel_size_z \in IF Len(image_denoised.shape) = 3
                        THEN {Some(v) : v \in VoxelSizes} ELSE {None}
    /\ sigma_yx \in Sigmas
    /\ sigma_z \in IF Len(image_denoised.shape) = 3
                   THEN {Some(s) : s \in SigmasZ} ELSE {None}
    /\ amplitude \in 0..MaxAmp
    /\ background \in 0..MaxBg
    /\ limit_gaussian \in (1..MaxLimit) \cup {LimitDefault}
    /\ precomputed_gaussian =
          Precompute(Len(image_denoised.shape), sigma_z, sigma_yx)
    /\ image_region_raw = image_denoised.data
    /\ simulation = [k \in 1..Len(image_denoised.data) |-> 0]
    /\ residual = image_denoised.data
    /\ ssr = SumSq(image_denoised.data)
    /\ diff_ssr = -1
    /\ nb_gaussian = 0
    /\ best_simulation = [k \in 1..Len(image_denoised.data) |-> 0]
    /\ positions_gaussian = <<>>
    /\ spots = [ncol |-> Len(image_denoised.shape), rows |-> <<>>]
    /\ psf_z = None
    /\ psf_yx = sigma_yx * voxel_size_yx
    /\ alpha = Rat(1, 2)
    /\ beta = Rat(1, 1)
    /\ gamma = Rat(5, 1)
    /\ threshold = 0
    /\ connected_regions = <<>>
    /\ reference_spot = NoArray
    /\ parameters_fitted = [sigma_z |-> sigma_z, sigma_yx |-> sigma_yx,
                            amplitude |-> amplitude,
                            background |-> background]
    /\ regions_to_decompose = <<region>>
    /\ spots_out_regions = <<>>
    /\ region_size = 0
    /\ i_region = 0
    /\ spots_in_regions = <<>>
    /\ dense_regions = <<>>

NextFit == FitStep \/ FitExit \/ FitClip

SpecFit == InitFit /\ [][NextFit]_vars

\* The fit as a sequential program: a step that can be taken is taken.
\* The element type has no part in the loop; one integer type is kept.
InitFitLive == InitFit /\ image_denoised.dtype = "uint8"

SpecFitLive == InitFitLive /\ [][NextFit]_vars /\ WF_vars(NextFit)

\* ------------------------- coordinates with a voxel size that is a float

\* grid[:, k] for a voxel size given as a fraction: the pixel index times
\* the voxel size, in float64.
GridPointFloat(k, shape, vz, vyx) ==
    [a \in 1..Len(shape) |->
        FloatTimesInt(Unravel(k, shape)[a],
                      Float64(VoxelAxis(Len(shape), a, vz, vyx)))]

\* A fitted coordinate of axis a back in the image: the float64 coordinate
\* divided by the voxel size, plus the minimum of the box, stored in an
\* int64 array.
ToImageFloat(x, a, nd, vz, vyx, bbox) ==
    FloatToInt(FloatAdd(FloatDivide(x, Float64(VoxelAxis(nd, a, vz, vyx))),
                        FloatOfInt(bbox[a])))

\* One pass through the body of the while loop where the voxel sizes are
\* floats: the position appended is the float64 grid point, and the values
\* of the gaussian are looked up by the distance in pixels.
FitStepFloat ==
    /\ entry = "simulate_gaussian_mixture"
    /\ pc = "loop"
    /\ LoopCondition(diff_ssr, nb_gaussian, limit_gaussian)
    /\ LET position_gaussian == ArgMax(residual)
           mu == GridPointFloat(position_gaussian, ImageRegionShape,
                                voxel_size_z, voxel_size_yx)
           g == Gaussian(ImageRegionShape,
                         Unravel(position_gaussian, ImageRegionShape),
                         Some(1), 1, amplitude, background,
                         precomputed_gaussian)
       IN  /\ positions_gaussian' = Append(positions_gaussian, mu)
           /\ simulation' = [k \in 1..Len(simulation) |-> simulation[k] + g[k]]
    /\ residual' = [k \in 1..Len(simulation) |->
                       image_region_raw[k] - simulation'[k]]
    /\ ssr' = SumSq(residual')
    /\ diff_ssr' = ssr' - ssr
    /\ nb_gaussian' = nb_gaussian + 1
    /\ background' = 0
    /\ best_simulation' = IF diff_ssr' < 0 THEN simulation' ELSE best_simulation
    /\ UNCHANGED <<image_region_raw, ctlVars, argVars, denseVars, orchVars,
                   fitArgVars>>

\* simulate_gaussian_mixture where the voxel sizes are floats: the rows of
\* the fitted spots of the region and the row of the region, both with the
\* coordinates back in the image and cast to int64.
ReconcileFloat ==
    /\ entry = "simulate_gaussian_mixture"
    /\ pc = "reconcile"
    /\ LET nd == Len(image_denoised.shape)
           coord == [j \in 1..Len(positions_gaussian) |->
                       [a \in 1..nd |->
                           ToImageFloat(positions_gaussian[j][a], a, nd,
                                        voxel_size_z, voxel_size_yx,
                                        region.bbox)]]
       IN  /\ spots_in_regions' =
                 spots_in_regions
                 \o [j \in 1..Len(coord) |-> Append(coord[j], i_region)]
           /\ dense_regions' =
                 Append(dense_regions,
                        coord[1]
                        \o <<Len(coord), region.area,
                             ToInt64(region.mean_intensity),
                             i_region>>)
    /\ i_region' = i_region + 1
    /\ pc' = "simulate"
    /\ UNCHANGED <<entry, warned, result, argVars, denseVars, image_denoised,
                   reference_spot, parameters_fitted, regions_to_decompose,
                   spots_out_regions, region_size, precomputed_gaussian,
                   fitArgVars, fitVars>>

\* The end of simulate_gaussian_mixture called on its own: the two arrays
\* it returns; np.concatenate raises ValueError on an empty list, which is
\* what an empty array of candidate regions leaves.
SimulateReturn ==
    /\ entry = "simulate_gaussian_mixture"
    /\ pc = "simulate"
    /\ i_region = Len(regions_to_decompose)
    /\ IF Len(spots_in_regions) = 0
       THEN /\ pc' = "raised"
            /\ result' = [NoResult EXCEPT !.kind = "ValueError",
                                          !.error = "concatenate"]
       ELSE /\ pc' = "done"
            /\ result' =
                  [NoResult EXCEPT
                     !.kind = "returned",
                     !.spots = spots_in_regions,
                     !.dense_regions =
                        [shape |-> <<Len(dense_regions),
                                     Len(dense_regions[1])>>,
                         rows |-> dense_regions]]
    /\ UNCHANGED <<entry, warned, argVars, denseVars, orchVars, fitArgVars,
                   fitVars>>

\* Images with the long axis last (2-d) or first (3-d), the regions that
\* cover all but one pixel of the long axis, and the voxel sizes: an int
\* and a float.
CoordLength == 5
CoordShapes == {<<1, CoordLength>>, <<CoordLength, 1, 1>>}
CoordImages ==
    UNION {[dtype : {"uint8"}, shape : {shp},
            data : [1..Size(shp) -> {1, 2}]] : shp \in CoordShapes}
CoordVoxelSizes == {Rat(2, 1), Rat(7, 10)}

\* The arrays of candidate regions: none, one region or two; a region is
\* the box of the pixels lo..(hi - 1) of the long axis. Nothing ties the
\* regions to the image: the mean intensity of the second one is negative,
\* as measured on a float image.
CoordRegions(img) ==
    LET box(lo, hi) == IF Len(img.shape) = 2 THEN <<0, lo, 1, hi>>
                       ELSE <<lo, 0, 0, hi, 1, 1>>
        r == [lo \in {0, 1} |->
                 [bbox |-> box(lo, lo + CoordLength - 1),
                  area |-> CoordLength - 1,
                  mean_intensity |-> IF lo = 0 THEN Rat(1, 1)
                                    ELSE Rat(-3, 2)]]
    IN  {<<>>, <<r[0]>>, <<r[1]>>, <<r[0], r[1]>>}

\* The parameters of simulate_gaussian_mixture are held in parameters_fitted
\* and the voxel sizes; precomputed_gaussian is the table of sigma 1.
InitCoord ==
    /\ entry = "simulate_gaussian_mixture"
    /\ pc = "simulate_check"
    /\ warned = <<>>
    /\ result = NoResult
    /\ image_denoised \in CoordImages
    /\ image = image_denoised
    /\ regions_to_decompose \in CoordRegions(image_denoised)
    /\ voxel_size_yx \in CoordVoxelSizes
    /\ voxel_size_z \in IF Len(image_denoised.shape) = 3
                        THEN {None} \cup {Some(v) : v \in CoordVoxelSizes}
                        ELSE {None, Some(Rat(2, 1))}
    /\ parameters_fitted \in [sigma_z : {None, Some(1)}, sigma_yx : {1},
                              amplitude : {1}, background : {-1, 0}]
    /\ precomputed_gaussian =
          Precompute(Len(image_denoised.shape), Some(1), 1)
    /\ spots = [ncol |-> Len(image_denoised.shape), rows |-> <<>>]
    /\ psf_z = None
    /\ psf_yx = 1
    /\ alpha = Rat(1, 2)
    /\ beta = Rat(1, 1)
    /\ gamma = Rat(5, 1)
    /\ threshold = 0
    /\ connected_regions = <<>>
    /\ reference_spot = NoArray
    /\ spots_out_regions = <<>>
    /\ region_size = 0
    /\ i_region = 0
    /\ spots_in_regions = <<>>
    /\ dense_regions = <<>>
    /\ FitUnset

NextCoord ==
    \/ SimulateCheck
    \/ SimulateRegion
    \/ FitStepFloat
    \/ FitExit
    \/ FitClip
    \/ ReconcileFloat
    \/ SimulateReturn

SpecCoord == InitCoord /\ [][NextCoord]_vars

\* ------------------------------------------------- the fit: properties

\* The grid point of the first maximum of the patch: the initial placement.
PeakPoint ==
    GridPoint(ArgMax(image_region_raw), ImageRegionShape, voxel_size_z,
              voxel_size_yx)

\* The patch is one gaussian of the fitted sigma, amplitude (> 0) and
\* background, centred on a point of the region grid.
PatchIsOneGaussian ==
    /\ amplitude > 0
    /\ \E k \in 0..(Len(image_region_raw) - 1) :
          image_region_raw =
             Gaussian(ImageRegionShape,
                      GridPoint(k, ImageRegionShape, voxel_size_z,
                                voxel_size_yx),
                      voxel_size_z, voxel_size_yx, amplitude,
                      parameters_fitted.background, precomputed_gaussian)

\* The patch is everywhere strictly below the fitted background level.
PatchBelowBackground ==
    \A k \in 1..Len(image_region_raw) :
        image_region_raw[k] < parameters_fitted.background

FitCalled == entry = "_gaussian_mixture"

\* C1: the number of gaussians placed in a region never exceeds
\* limit_gaussian (the loop stops when the placements reach the cap).
C1_PlacementsWithinLimit ==
    FitCalled => nb_gaussian <= limit_gaussian

\* C2: when the placements reach limit_gaussian while every step so far
\* improved, the loop is left at once with exactly limit_gaussian positions
\* kept and the "stopped early" warning emitted.
C2_CapKeepsAllAndWarns ==
    [][(FitCalled /\ pc = "loop" /\ nb_gaussian = limit_gaussian
          /\ diff_ssr < 0)
       => (/\ pc' = "clip"
           /\ Len(positions_gaussian') = limit_gaussian
           /\ warned' = <<"limit_gaussian">>)]_vars

\* C3: after the loop and the discard step positions_gaussian is never
\* empty, so the first fitted position of the region exists.
C3_PositionsNeverEmpty ==
    /\ pc = "clip" => Len(positions_gaussian) >= 1
    /\ (FitCalled /\ pc = "done") => Len(result.positions) >= 1

\* C3 witness: an all-zero patch whose first placement did not reduce the
\* SSR, after the discard step.
C3_Witness ==
    /\ FitCalled /\ pc = "clip"
    /\ \A k \in 1..Len(image_region_raw) : image_region_raw[k] = 0
    /\ nb_gaussian = 1 /\ diff_ssr >= 0
    /\ Len(positions_gaussian) = 1

\* C8: with the default cap, a patch that is exactly one gaussian makes the
\* fit return exactly one position, the grid point of the patch's peak.
C8_OneGaussianOnePosition ==
    (FitCalled /\ limit_gaussian = LimitDefault /\ PatchIsOneGaussian
       /\ pc \in {"done", "raised"})
    => (result.kind = "returned" /\ result.positions = <<PeakPoint>>)

\* C8 on the integer element types only, where np.iinfo is defined: the
\* same statement holds.
C8_OnIntegerImages ==
    (FitCalled /\ limit_gaussian = LimitDefault /\ PatchIsOneGaussian
       /\ ImageRegionDType \in IntegerDTypes /\ pc \in {"done", "raised"})
    => (result.kind = "returned" /\ result.positions = <<PeakPoint>>)

\* C9 as stated: on a patch strictly below the background (default cap) the
\* loop places the initial gaussian and stops: one placement, one position.
C9_OnePlacementOnly ==
    (FitCalled /\ limit_gaussian = LimitDefault /\ PatchBelowBackground
       /\ pc = "clip")
    => (nb_gaussian = 1 /\ positions_gaussian = <<PeakPoint>>)

\* C9 amended: on a patch strictly below the background (default cap) the
\* loop makes one or two placements (a second one when the first reduced
\* the SSR, which the discard step removes); after the discard step
\* positions_gaussian holds exactly one position, the initial placement,
\* and this is what the fit returns when it returns (integer element
\* types).
C9_OnePositionKept ==
    (FitCalled /\ limit_gaussian = LimitDefault /\ PatchBelowBackground
       /\ pc \in {"clip", "done", "raised"})
    => (/\ nb_gaussian \in {1, 2}
        /\ positions_gaussian = <<PeakPoint>>
        /\ pc = "done" => result.positions = <<PeakPoint>>
        /\ pc = "raised" => ImageRegionDType \notin IntegerDTypes)

\* C9 witness: a patch below the background whose first placement reduced
\* the SSR, so that a second placement was made and discarded.
C9_Witness ==
    /\ FitCalled /\ limit_gaussian = LimitDefault /\ PatchBelowBackground
    /\ pc = "done" /\ nb_gaussian = 2
    /\ result.positions = <<PeakPoint>>

\* --------------------------------------- decompose_dense: properties

\* No step of the computation has run: the denoised image, the reference
\* spot, the fitted parameters, the regions and the fit are all unassigned.
NothingComputed ==
    /\ image_denoised = NoArray
    /\ LocalsUnset
    /\ FitUnset

ParametersInvalid ==
    \/ RatBelow(alpha, 0)
    \/ RatAbove(alpha, 1)
    \/ RatBelow(beta, 0)
    \/ RatBelow(gamma, 0)

\* C4: in decompose_dense, whenever alpha is outside [0, 1], beta < 0 or
\* gamma < 0, the call ends with a ValueError about one of the three
\* parameters, nothing is returned, and no step of the computation
\* (denoising, reference spot, fit of the PSF, detection of the regions,
\* decomposition) has been performed.
C4_InvalidParametersFailFast ==
    (ParametersInvalid /\ pc # "check")
        => /\ pc = "raised"
           /\ result.kind = "ValueError"
           /\ result.error \in {"alpha", "beta", "gamma"}
           /\ result.spots = <<>>
           /\ result.reference_spot = NoArray
           /\ NothingComputed

\* An alpha above 1 was rejected although there are spots, the geometry is
\* complete and beta and gamma are valid.
C4_Witness ==
    /\ pc = "raised"
    /\ RatAbove(alpha, 1)
    /\ ~RatBelow(beta, 0)
    /\ ~RatBelow(gamma, 0)
    /\ Len(spots.rows) > 0
    /\ spots.ncol = Len(image.shape)
    /\ result.error = "alpha"

ZGeometryMissing == voxel_size_z = None \/ psf_z = None

\* C5: for a 3-D image, a call of decompose_dense without voxel_size_z or
\* without psf_z goes from the checks straight to a ValueError, with or
\* without spots, and nothing has been computed; for a 2-D image with valid
\* parameters and 2-D spots the checks pass whatever z-geometry is given and
\* reset voxel_size_z and psf_z to None.
C5_ZGeometry ==
    [][(pc = "check")
         => /\ (Len(image.shape) = 3 /\ ZGeometryMissing)
                  => /\ pc' = "raised"
                     /\ result'.kind = "ValueError"
                     /\ NothingComputed'
            /\ (Len(image.shape) = 2 /\ ~ParametersInvalid /\ spots.ncol = 2)
                  => /\ pc' = "checked"
                     /\ voxel_size_z' = None
                     /\ psf_z' = None]_vars

\* A 3-D image without voxel_size_z was rejected for it although there is
\* no spot.
C5_Witness ==
    /\ pc = "raised"
    /\ Len(image.shape) = 3
    /\ voxel_size_z = None
    /\ spots.ncol = 3
    /\ Len(spots.rows) = 0
    /\ result.error = "voxel_size_z"

\* The three degenerate cases of decompose_dense, once their test has been
\* made: no spot, a reference spot that sums to zero, no region kept.
NoSpotCase ==
    /\ entry = "decompose_dense"
    /\ pc \notin {"check", "checked"}
    /\ result.error = "none"
    /\ Len(spots.rows) = 0

EmptyReferenceCase ==
    /\ entry = "decompose_dense"
    /\ pc # "reference_built"
    /\ reference_spot # NoArray
    /\ Sum(reference_spot.data) = 0

NoRegionCase ==
    /\ entry = "decompose_dense"
    /\ pc \notin {"dense_check", "dense_threshold", "dense_connected",
                  "dense_filter", "regions"}
    /\ parameters_fitted # NoParameters
    /\ Len(regions_to_decompose) = 0

\* C6: in each degenerate case of decompose_dense (no spot, reference spot
\* summing to zero, no region kept) the call returns, without raising, the
\* input spots unchanged and an empty array of regions of shape
\* (0, ndim + 4), and the fit of the gaussian mixture has not run.
C6_DegenerateCasesReturnInput ==
    (NoSpotCase \/ EmptyReferenceCase \/ NoRegionCase)
        => /\ pc = "done"
           /\ result.kind = "returned"
           /\ result.spots = spots.rows
           /\ result.dense_regions.rows = <<>>
           /\ result.dense_regions.shape = <<0, Len(image.shape) + 4>>
           /\ precomputed_gaussian = <<>>
           /\ FitUnset

\* A call with a spot and a non-zero reference spot returned because no
\* region was kept.
C6_Witness ==
    /\ NoRegionCase
    /\ pc = "done"
    /\ Len(spots.rows) > 0
    /\ Sum(reference_spot.data) # 0

AllZero(v) == \A k \in 1..Len(v) : v[k] = 0

\* C7 (as stated): whenever decompose_dense short-circuits, every element
\* of the reference spot it returns is 0.
C7_ReferenceZeroValued ==
    ((NoSpotCase \/ EmptyReferenceCase \/ NoRegionCase) /\ pc = "done")
        => AllZero(result.reference_spot.data)

\* C7 (amended): when decompose_dense short-circuits, the reference spot it
\* returns is a patch of zeros of side 5 if there is no spot, and otherwise
\* the reference spot it built, unchanged: one that sums to zero in the
\* empty-reference case, one that does not in the no-region case.
C7_ReferenceReturned ==
    ((NoSpotCase \/ EmptyReferenceCase \/ NoRegionCase) /\ pc = "done")
        => /\ NoSpotCase
              => /\ AllZero(result.reference_spot.data)
                 /\ result.reference_spot.shape
                      = [a \in 1..Len(image.shape) |-> 5]
                 /\ result.reference_spot.dtype = image.dtype
           /\ ~NoSpotCase
              => /\ result.reference_spot = reference_spot
                 /\ reference_spot
                      = BuildReferenceSpot(image_denoised, spots, alpha)
           /\ (~NoSpotCase /\ NoRegionCase)
              => Sum(result.reference_spot.data) # 0

\* No region was kept and the reference spot returned has a non-zero
\* element.
C7_Witness ==
    /\ NoRegionCase
    /\ pc = "done"
    /\ ~NoSpotCase
    /\ ~AllZero(result.reference_spot.data)

\* --------------------------------------- get_dense_region: properties

RatLeq(r1, r2) == r1.num * r2.den <= r2.num * r1.den

\* The largest value of the median reference spot of the image.
MedianMax ==
    MaxOf(BuildReferenceSpot(image_denoised, spots, Rat(1, 2)).data)

\* The number of pixels of the image strictly above int(m * b).
NbAbove(m, b) ==
    Cardinality({k \in 1..Len(image_denoised.data) :
                   image_denoised.data[k] > Threshold(m, b)})

\* The number of pixels of the mask the detector labelled.
NbLabelled == Cardinality({k \in 1..Len(connected_regions) :
                             connected_regions[k] # 0})

\* C10: for a fixed image and list of spots, the number of pixels strictly
\* above the threshold does not grow with beta: the pixels the detector
\* labelled with its beta are at least as many as those above the threshold
\* of any larger beta, and at most as many as those above the threshold of
\* any smaller one.
C10_PixelCountMonotoneInBeta ==
    (entry = "get_dense_region" /\ pc \in {"dense_filter", "done"})
        => LET m == MedianMax
           IN  \A b \in DetectBetas :
                  /\ RatLeq(beta, b) => NbAbove(m, b) <= NbLabelled
                  /\ (RatLeq(Rat(0, 1), b) /\ RatLeq(b, beta))
                        => NbLabelled <= NbAbove(m, b)

\* The same when the maximum of the reference spot is not negative, as it
\* is on every unsigned image: the threshold then does not fall as beta
\* grows.
C10_OnNonNegativeReference ==
    (entry = "get_dense_region" /\ pc \in {"dense_filter", "done"}
     /\ MedianMax >= 0)
        => \A b \in DetectBetas :
              /\ RatLeq(beta, b) => NbAbove(MedianMax, b) <= NbLabelled
              /\ (RatLeq(Rat(0, 1), b) /\ RatLeq(b, beta))
                    => NbLabelled <= NbAbove(MedianMax, b)

\* The detector labelled pixels with beta = 1/2 that are not above the
\* threshold of beta = 1, which still leaves some.
C10_NonNegativeReached ==
    /\ entry = "get_dense_region"
    /\ pc = "dense_filter"
    /\ beta = Rat(1, 2)
    /\ MedianMax >= 0
    /\ NbAbove(MedianMax, Rat(1, 1)) < NbLabelled
    /\ NbAbove(MedianMax, Rat(1, 1)) > 0

\* The product with beta = 0.29 rounds below 29 in float64: the pixels of
\* value 29 are above the threshold of a reference maximum of 100.
C10_RoundedProductReached ==
    /\ entry = "get_dense_region"
    /\ pc = "dense_filter"
    /\ beta = Rat(29, 100)
    /\ MedianMax = 100
    /\ threshold = 28
    /\ \E k \in 1..Len(connected_regions) :
          connected_regions[k] # 0 /\ image_denoised.data[k] = 29

\* A negative reference maximum: the threshold of beta = 1/2 is cut towards
\* zero, and the threshold of beta = 1 lies below it.
C10_NegativeReferenceReached ==
    /\ entry = "get_dense_region"
    /\ pc = "dense_filter"
    /\ beta = Rat(1, 2)
    /\ MedianMax = -1
    /\ threshold = 0
    /\ NbAbove(MedianMax, Rat(1, 1)) > NbLabelled

\* The regions get_dense_region keeps for the image and spots with beta b.
KeptAt(b) ==
    FilterConnectedRegion(
        image_denoised,
        GetConnectedRegion(image_denoised,
                           Threshold(MaxOf(BuildReferenceSpot(
                                               image_denoised, spots,
                                               Rat(1, 2)).data), b)),
        spots.rows).regions_filtered

\* The pixels (flat indices) of the kept regions: the labelled pixels whose
\* component has at least two pixels.
KeptPixels(cc) ==
    {k \in 0..(Len(cc) - 1) :
        cc[k + 1] # 0
        /\ Cardinality({j \in 1..Len(cc) : cc[j] = cc[k + 1]}) >= 2}

KeptPixelsAt(b) ==
    KeptPixels(GetConnectedRegion(
                   image_denoised,
                   Threshold(MaxOf(BuildReferenceSpot(image_denoised, spots,
                                                      Rat(1, 2)).data), b)))

\* The total area of a list of regions.
TotalArea(regions) == Sum([i \in 1..Len(regions) |-> regions[i].area])

GetDenseRegionReturned == entry = "get_dense_region" /\ pc = "done"

\* C11 (as stated): for a fixed image and spots, a larger beta never gives
\* more kept regions (components of the mask of area >= 2) than the
\* detector kept with its own beta.
C11_KeptRegionsMonotoneInBeta ==
    GetDenseRegionReturned
        => \A b \in RegionBetas :
              RatLeq(beta, b)
                 => Len(KeptAt(b)) <= Len(result.dense_regions)

\* C11 (amended): a larger beta never adds a pixel to the kept regions: the
\* pixels of the regions kept with a larger beta are among the pixels of
\* the regions the detector kept, and the total area of the kept regions
\* does not grow; the number of kept regions can grow, when a region splits.
C11_KeptPixelsMonotoneInBeta ==
    GetDenseRegionReturned
        => \A b \in RegionBetas :
              RatLeq(beta, b)
                 => /\ KeptPixelsAt(b) \subseteq KeptPixels(connected_regions)
                    /\ TotalArea(KeptAt(b)) <= TotalArea(result.dense_regions)

\* One region kept with the detector's beta splits into two kept regions
\* with beta = 1.
C11_Witness ==
    /\ GetDenseRegionReturned
    /\ RatLeq(beta, Rat(1, 1))
    /\ Len(result.dense_regions) = 1
    /\ Len(KeptAt(Rat(1, 1))) = 2
    /\ KeptPixelsAt(Rat(1, 1)) # KeptPixels(connected_regions)

\* ------------------------------- decompose_dense: the merged result

\* decompose_dense went through simulate_gaussian_mixture and returned.
Merged ==
    /\ entry = "decompose_dense"
    /\ pc = "done"
    /\ precomputed_gaussian # <<>>

\* C12: decompose_dense warns that fewer spots are detected exactly when the
\* outside spots plus the fitted spots are strictly fewer than the input
\* spots, and it then still returns the merged spots, the regions and the
\* reference spot; a call that returns without reaching the comparison
\* never warns.
C12_LessSpotsWarning ==
    (entry = "decompose_dense" /\ pc = "done")
        => /\ result.kind = "returned"
           /\ ~Merged => warned = <<>>
           /\ Merged
                => /\ ("less_spots" \in Range(warned))
                      <=> (Len(spots_out_regions) + Len(spots_in_regions)
                             < Len(spots.rows))
                   /\ Len(result.spots)
                        = Len(spots_out_regions) + Len(spots_in_regions)
                   /\ result.dense_regions.rows = dense_regions
                   /\ result.reference_spot = reference_spot

\* Two spots in a region the fit gave a single spot for: the warning was
\* emitted and the single spot returned.
C12_Witness ==
    /\ Merged
    /\ warned = <<"less_spots">>
    /\ Len(spots.rows) = 2
    /\ Len(result.spots) = 1
    /\ Len(result.dense_regions.rows) = 1

\* Whether some kept region's half-open bounding box contains the spot.
InSomeKeptBox(spot) ==
    \E i \in 1..Len(regions_to_decompose) :
        \A a \in 1..Len(spot) :
            /\ regions_to_decompose[i].bbox[a] <= spot[a]
            /\ spot[a] < regions_to_decompose[i].bbox[Len(spot) + a]

OutsideAnyKeptBox(spot) == ~InSomeKeptBox(spot)

\* The voxel size along axis a of the image.
AxisVoxel(a) ==
    IF Len(image.shape) = 3 /\ a = 1 THEN voxel_size_z[1] ELSE voxel_size_yx

\* The fitted positions of the last decomposed region in image
\* coordinates, in placement order, each followed by the region's index.
LastRegionSpots ==
    [j \in 1..Len(positions_gaussian) |->
        [a \in 1..(Len(image.shape) + 1) |->
            IF a <= Len(image.shape)
            THEN positions_gaussian[j][a] \div AxisVoxel(a) + region.bbox[a]
            ELSE i_region - 1]]

\* A region has been decomposed and its spots appended.
AfterReconcile ==
    /\ entry = "decompose_dense"
    /\ pc \in {"simulate", "done"}
    /\ i_region > 0

\* C13: the final spots are the input spots outside every kept box, in
\* input order, followed by the fitted spots without their region column;
\* the fitted spots are ordered by region index, and the spots of a region
\* are appended in the order they were placed.
C13_FinalSpotOrder ==
    /\ Merged
         => result.spots
              = SelectSeq(spots.rows, OutsideAnyKeptBox)
                \o [j \in 1..Len(spots_in_regions) |->
                      SubSeq(spots_in_regions[j], 1, Len(image.shape))]
    /\ AfterReconcile
         => /\ Len(spots_in_regions) >= Len(positions_gaussian)
            /\ SubSeq(spots_in_regions,
                      Len(spots_in_regions) - Len(positions_gaussian) + 1,
                      Len(spots_in_regions)) = LastRegionSpots
            /\ \A j, k \in 1..Len(spots_in_regions) :
                  j < k => spots_in_regions[j][Len(image.shape) + 1]
                             <= spots_in_regions[k][Len(image.shape) + 1]

\* Two regions were decomposed, the first into several spots, and a spot
\* outside the regions comes first in the result.
C13_Witness ==
    /\ Merged
    /\ Len(regions_to_decompose) = 2
    /\ Len(spots_out_regions) >= 1
    /\ Len(spots_in_regions) >= 3
    /\ spots_in_regions[2][Len(image.shape) + 1] = 0
    /\ result.spots[1] = spots_out_regions[1]

\* ------------------------------------ the fit: stop rule and best SSR

\* The list without its last element.
AllButLast(q) == SubSeq(q, 1, Len(q) - 1)

\* The stop rule at one step of the loop: after a placement that did not
\* reduce the SSR the loop is left, and that placement is dropped unless it
\* is the very first one; otherwise one more gaussian is placed.
StopRuleStep ==
    (FitCalled /\ pc = "loop")
        => /\ (nb_gaussian >= 1 /\ diff_ssr >= 0)
                => /\ pc' = "clip"
                   /\ positions_gaussian'
                        = IF nb_gaussian > 1
                          THEN AllButLast(positions_gaussian)
                          ELSE positions_gaussian
           /\ (nb_gaussian = 0 \/ diff_ssr < 0)
                => /\ pc' = "loop"
                   /\ Len(positions_gaussian') = Len(positions_gaussian) + 1

\* C14: placements continue only while each new gaussian strictly reduces
\* the SSR; the loop stops at the first placement that does not, and that
\* placement (unless it is the very first) is not among the positions kept,
\* which are exactly the placements made before it, in placement order.
C14_StopRule == [][StopRuleStep]_vars

\* The same stop rule for the calls with the default limit_gaussian, whose
\* cap is never reached here.
C14_WithDefaultLimit ==
    [][limit_gaussian = LimitDefault => StopRuleStep]_vars

\* The SSR of a simulation against the patch.
SsrOf(sim) ==
    SumSq([k \in 1..Len(image_region_raw) |-> image_region_raw[k] - sim[k]])

\* C15: each time the loop overwrites best_simulation (a placement with
\* diff_ssr < 0), the SSR of the new best simulation is strictly lower than
\* the SSR of the best simulation recorded before, for every
\* limit_gaussian; best_simulation changes at no other step of the loop.
C15_BestSsrDecreases ==
    [][(FitCalled /\ pc = "loop" /\ pc' = "loop")
         => /\ diff_ssr' < 0
                => /\ best_simulation' = simulation'
                   /\ SsrOf(best_simulation') < SsrOf(best_simulation)
            /\ diff_ssr' >= 0 => best_simulation' = best_simulation]_vars

\* The same for the calls with the default limit_gaussian, whose cap is
\* never reached here.
C15_WithDefaultLimit ==
    [][(FitCalled /\ pc = "loop" /\ pc' = "loop"
          /\ limit_gaussian = LimitDefault /\ diff_ssr' < 0)
         => SsrOf(best_simulation') < SsrOf(best_simulation)]_vars

\* ------------------------------- get_dense_region: boxes and spots

\* Whether two half-open boxes share a pixel.
BoxesOverlap(b1, b2) ==
    \A a \in 1..(Len(b1) \div 2) :
        /\ b1[a] < b2[(Len(b1) \div 2) + a]
        /\ b2[a] < b1[(Len(b1) \div 2) + a]

\* Whether a spot lies in a half-open box.
InBox(spot, b) ==
    \A a \in 1..Len(spot) : b[a] <= spot[a] /\ spot[a] < b[Len(spot) + a]

\* C16 (as stated): the bounding boxes of distinct kept regions never
\* overlap, so every input spot lies inside the box of at most one kept
\* region.
C16_BoxesNeverOverlap ==
    GetDenseRegionReturned
        => /\ \A i, j \in 1..Len(result.dense_regions) :
                 i # j => ~BoxesOverlap(result.dense_regions[i].bbox,
                                        result.dense_regions[j].bbox)
           /\ \A n \in 1..Len(spots.rows) :
                 Cardinality({i \in 1..Len(result.dense_regions) :
                                InBox(spots.rows[n],
                                      result.dense_regions[i].bbox)}) <= 1

\* The pixel coordinates of component l of the labelled image.
PixelsOf(l) ==
    {Unravel(k - 1, image_denoised.shape) :
       k \in {j \in 1..Len(connected_regions) : connected_regions[j] = l}}

\* The labels of the kept regions: the components of at least two pixels.
KeptLabels ==
    {l \in Range(connected_regions) :
       l # 0 /\ Cardinality(PixelsOf(l)) >= 2}

\* C16 (amended): distinct kept regions share no pixel and have no two
\* neighbouring pixels (full connectivity); every kept region lies within
\* its own bounding box, with one kept region per component of at least
\* two pixels. The boxes of distinct kept regions can overlap, so a spot
\* can lie inside the boxes of several kept regions.
C16_RegionsApartBoxesMayOverlap ==
    GetDenseRegionReturned
        => /\ Len(result.dense_regions) = Cardinality(KeptLabels)
           /\ \A l \in KeptLabels :
                 \E i \in 1..Len(result.dense_regions) :
                    /\ result.dense_regions[i].area
                         = Cardinality(PixelsOf(l))
                    /\ \A p \in PixelsOf(l) :
                          InBox(p, result.dense_regions[i].bbox)
           /\ \A l1, l2 \in KeptLabels :
                 l1 # l2
                   => \A p \in PixelsOf(l1), q \in PixelsOf(l2) :
                         \E a \in 1..Len(p) : Abs(p[a] - q[a]) > 1

\* Two kept regions whose boxes overlap, and a spot inside both boxes.
C16_Witness ==
    /\ GetDenseRegionReturned
    /\ Len(result.dense_regions) = 2
    /\ BoxesOverlap(result.dense_regions[1].bbox,
                    result.dense_regions[2].bbox)
    /\ Len(spots.rows) = 1
    /\ InBox(spots.rows[1], result.dense_regions[1].bbox)
    /\ InBox(spots.rows[1], result.dense_regions[2].bbox)
    /\ result.spots_out_region = <<>>

\* Whether no kept region returned by get_dense_region has the spot
\* inside its half-open box.
OutsideReturnedBoxes(spot) ==
    \A i \in 1..Len(result.dense_regions) :
        ~InBox(spot, result.dense_regions[i].bbox)

\* C17: the outside spots get_dense_region returns are exactly the input
\* spots that no kept region's half-open box contains (min <= coord < max
\* on every axis), each once, in their input order.
C17_SpotPartition ==
    GetDenseRegionReturned
        => result.spots_out_region
             = SelectSeq(spots.rows, OutsideReturnedBoxes)

\* Of two spots the first, inside a kept box, was removed and the second,
\* on the upper face of that box, was kept.
C17_Witness ==
    /\ GetDenseRegionReturned
    /\ Len(result.dense_regions) >= 1
    /\ Len(spots.rows) = 2
    /\ InBox(spots.rows[1], result.dense_regions[1].bbox)
    /\ spots.rows[2][2] = result.dense_regions[1].bbox[4]
    /\ result.spots_out_region = <<spots.rows[2]>>

\* ------------------------------------------- the fit: clip and cast

\* The largest value of the unsigned integer element types.
UnsignedMax(dtype) == IF dtype = "uint8" THEN 2^8 - 1 ELSE 2^16 - 1

\* A value clipped into the range of the element type: saturating for the
\* unsigned integers, floored at 0 for the floats.
Saturated(x, dtype) ==
    IF x < 0 THEN 0
    ELSE IF dtype \in {"uint8", "uint16"} /\ x > UnsignedMax(dtype)
         THEN UnsignedMax(dtype)
         ELSE x

\* C18: for each of the four element types, the step after the loop clips
\* the best simulation to the range of the element type, casts it back to
\* that type with saturation, and the fit returns without error.
C18_ClipCastEveryType ==
    [][(FitCalled /\ pc = "clip")
         => /\ pc' = "done"
            /\ result'.kind = "returned"
            /\ result'.simulation.dtype = image_denoised.dtype
            /\ result'.simulation.shape = ImageRegionShape
            /\ result'.simulation.data
                 = [k \in 1..Len(best_simulation) |->
                      Saturated(best_simulation[k], image_denoised.dtype)]
       ]_vars

\* The same on the unsigned integer element types only.
C18_OnIntegerImages ==
    [][(FitCalled /\ pc = "clip"
          /\ image_denoised.dtype \in {"uint8", "uint16"})
         => /\ pc' = "done"
            /\ result'.kind = "returned"
            /\ result'.simulation.data
                 = [k \in 1..Len(best_simulation) |->
                      Saturated(best_simulation[k], image_denoised.dtype)]
       ]_vars

\* ------------------------------------------------ the region records

\* The record of the last decomposed region and the region itself.
LastRecord == dense_regions[i_region]

LastCandidate == regions_to_decompose[i_region]

\* The fields of the last record other than the mean intensity: the
\* centroid is the first fitted position in the image, the count is the
\* number of fitted positions, the area is the region's, the id is the
\* region's index; and there is one record per decomposed region, with
\* ids 0, 1, ... in order.
RecordFields ==
    /\ Len(dense_regions) = i_region
    /\ Len(LastRecord) = Len(image.shape) + 4
    /\ Len(positions_gaussian) >= 1
    /\ \A a \in 1..Len(image.shape) :
          LastRecord[a]
            = positions_gaussian[1][a] \div AxisVoxel(a)
              + LastCandidate.bbox[a]
    /\ LastRecord[Len(image.shape) + 1] = Len(positions_gaussian)
    /\ LastRecord[Len(image.shape) + 2] = LastCandidate.area
    /\ \A i \in 1..Len(dense_regions) :
          /\ dense_regions[i][Len(image.shape) + 4] = i - 1
          /\ dense_regions[i][Len(image.shape) + 2]
               = regions_to_decompose[i].area

\* Whether the integer n is the fraction r without its digits after the
\* point: no further from zero than r, less than one away, of its sign.
CutTowardsZero(n, r) ==
    /\ Abs(n) * r.den <= Abs(r.num)
    /\ Abs(r.num) < (Abs(n) + 1) * r.den
    /\ n * r.num >= 0

\* One record per kept region in the result.
OneRecordPerRegion ==
    /\ result.dense_regions.rows = dense_regions
    /\ Len(dense_regions) = Len(regions_to_decompose)
    /\ result.dense_regions.shape
         = <<Len(regions_to_decompose), Len(image.shape) + 4>>

\* C19: for each decomposed region i the record's centroid is the image
\* coordinate of the first fitted position of the region, its spot count
\* is the number of fitted positions, its area and mean intensity are those
\* of the candidate region, and its id is i; there is exactly one record
\* per kept region, in the order 0..n-1 of the ids.
C19_RegionRecord ==
    /\ AfterReconcile
         => /\ RecordFields
            /\ LastRecord[Len(image.shape) + 3]
                 * LastCandidate.mean_intensity.den
               = LastCandidate.mean_intensity.num
    /\ Merged => OneRecordPerRegion

\* C19 amended: the same, with the mean intensity of the record being the
\* mean intensity of the candidate region truncated to an integer.
C19_RegionRecordTruncatedMean ==
    /\ AfterReconcile
         => /\ RecordFields
            /\ CutTowardsZero(LastRecord[Len(image.shape) + 3],
                              LastCandidate.mean_intensity)
    /\ Merged => OneRecordPerRegion

\* The same field in the records simulate_gaussian_mixture returns when it
\* is called on its own, where the mean of a region can be negative.
C19_MeanCutTowardsZero ==
    (entry = "simulate_gaussian_mixture" /\ pc = "done")
      => \A i \in 1..Len(regions_to_decompose) :
            CutTowardsZero(
                result.dense_regions.rows[i][Len(image.shape) + 3],
                regions_to_decompose[i].mean_intensity)

\* A region of mean -3/2 was returned with the mean -1.
C19_NegativeMeanReached ==
    /\ entry = "simulate_gaussian_mixture"
    /\ pc = "done"
    /\ \E i \in 1..Len(regions_to_decompose) :
          /\ regions_to_decompose[i].mean_intensity = Rat(-3, 2)
          /\ result.dense_regions.rows[i][Len(image.shape) + 3] = -1

\* Two regions were decomposed; one has a fractional mean intensity and
\* the other was decomposed into spots at different positions.
C19_Witness ==
    /\ Merged
    /\ Len(dense_regions) = 2
    /\ \E i \in 1..2 :
          regions_to_decompose[i].mean_intensity.num
            % regions_to_decompose[i].mean_intensity.den # 0
    /\ \E j, k \in 1..Len(spots_in_regions) :
          /\ spots_in_regions[j][Len(image.shape) + 1]
               = spots_in_regions[k][Len(image.shape) + 1]
          /\ spots_in_regions[j] # spots_in_regions[k]

\* ------------------------------------------- the coordinate round trip

\* simulate_gaussian_mixture has handled a region: the region and its
\* fitted positions are still held.
CoordRegionDone ==
    /\ entry = "simulate_gaussian_mixture"
    /\ pc = "simulate"
    /\ i_region > 0

\* The index in the patch, per axis, of the j-th fitted position of the
\* region: the pixel whose grid point the position is.
PlacedIndex(j) ==
    Unravel(CHOOSE k \in 0..(Size(ImageRegionShape) - 1) :
               GridPointFloat(k, ImageRegionShape, voxel_size_z,
                              voxel_size_yx) = positions_gaussian[j],
            ImageRegionShape)

\* The row emitted for the j-th fitted position of the region.
EmittedRow(j) ==
    spots_in_regions[Len(spots_in_regions) - Len(positions_gaussian) + j]

\* C20: a gaussian placed at the index k (per axis) of the patch of a
\* region whose box has the minimum m is emitted at the pixel m + k of the
\* image on that axis (dividing the grid coordinate by the voxel size and
\* adding the minimum of the box inverts the scaling of the grid), and
\* every emitted spot lies inside the half-open box of its region.
C20_CoordinateRoundTrip ==
    CoordRegionDone
      => \A j \in 1..Len(positions_gaussian) :
            \A a \in 1..Len(image.shape) :
               /\ EmittedRow(j)[a] = region.bbox[a] + PlacedIndex(j)[a]
               /\ region.bbox[a] <= EmittedRow(j)[a]
               /\ EmittedRow(j)[a] < region.bbox[Len(image.shape) + a]

\* The same where the voxel sizes are whole numbers.
C20_WithWholeVoxelSizes ==
    (/\ CoordRegionDone
     /\ voxel_size_yx.den = 1
     /\ voxel_size_z # None => voxel_size_z[1].den = 1)
      => \A j \in 1..Len(positions_gaussian) :
            \A a \in 1..Len(image.shape) :
               EmittedRow(j)[a] = region.bbox[a] + PlacedIndex(j)[a]

\* With any voxel size every emitted spot is at m + k or one pixel below,
\* and inside the box of its region.
C20_AtMostOnePixelBelow ==
    CoordRegionDone
      => \A j \in 1..Len(positions_gaussian) :
            \A a \in 1..Len(image.shape) :
               /\ EmittedRow(j)[a]
                    \in {region.bbox[a] + PlacedIndex(j)[a] - 1,
                         region.bbox[a] + PlacedIndex(j)[a]}
               /\ region.bbox[a] <= EmittedRow(j)[a]
               /\ EmittedRow(j)[a] < region.bbox[Len(image.shape) + a]

\* A spot placed at the index 3 of its axis with a voxel size of 0.7 is
\* emitted at the pixel m + 2, and the call returns.
C20_OnePixelBelowReturned ==
    /\ entry = "simulate_gaussian_mixture"
    /\ pc = "done"
    /\ voxel_size_yx = Rat(7, 10)
    /\ \E j \in 1..Len(positions_gaussian) :
          \E a \in 1..Len(image.shape) :
             /\ PlacedIndex(j)[a] = 3
             /\ result.spots[Len(result.spots) - Len(positions_gaussian)
                               + j][a] = region.bbox[a] + 2

\* With whole voxel sizes, in decompose_dense: every fitted spot of the
\* last decomposed region is at the minimum of the box plus a grid index,
\* inside the half-open box.
C20_FittedSpotsInsideBox ==
    AfterReconcile
      => \A j \in 1..Len(positions_gaussian) :
            \A a \in 1..Len(image.shape) :
               LET emitted ==
                     spots_in_regions[Len(spots_in_regions)
                                        - Len(positions_gaussian) + j][a]
               IN  /\ (emitted - region.bbox[a]) * AxisVoxel(a)
                        = positions_gaussian[j][a]
                   /\ region.bbox[a] <= emitted
                   /\ emitted < region.bbox[Len(image.shape) + a]

\* ------------------------------------------------ region independence

\* The fit as a function of the patch and of the read-only arguments: the
\* loop from the state st (simulation, ssr, diff_ssr, nb_gaussian,
\* background, positions) with the default limit_gaussian, and the
\* positions it returns.
RECURSIVE MixtureFrom(_, _, _)
MixtureFrom(raw, shape, st) ==
    IF ~LoopCondition(st.diff_ssr, st.nb_gaussian, LimitDefault)
    THEN IF DiscardLast(st.nb_gaussian, LimitDefault)
         THEN SubSeq(st.positions, 1, Len(st.positions) - 1)
         ELSE st.positions
    ELSE LET res == [k \in 1..Len(raw) |-> raw[k] - st.simulation[k]]
             mu == GridPoint(ArgMax(res), shape, voxel_size_z, voxel_size_yx)
             g == Gaussian(shape, mu, voxel_size_z, voxel_size_yx,
                           parameters_fitted.amplitude, st.background,
                           precomputed_gaussian)
             sim == [k \in 1..Len(raw) |-> st.simulation[k] + g[k]]
             new_ssr == SumSq([k \in 1..Len(raw) |-> raw[k] - sim[k]])
         IN  MixtureFrom(raw, shape,
                         [simulation |-> sim,
                          ssr |-> new_ssr,
                          diff_ssr |-> new_ssr - st.ssr,
                          nb_gaussian |-> st.nb_gaussian + 1,
                          background |-> 0,
                          positions |-> Append(st.positions, mu)])

\* The positions fitted on region r alone.
MixtureOf(r) ==
    LET raw == Crop(image_denoised, r.bbox).data
    IN  MixtureFrom(raw, BoxShape(r.bbox),
                    [simulation |-> [k \in 1..Len(raw) |-> 0],
                     ssr |-> SumSq(raw),
                     diff_ssr |-> -1,
                     nb_gaussian |-> 0,
                     background |-> parameters_fitted.background,
                     positions |-> <<>>])

\* The rows of spots_in_regions of region i (from 1) fitted alone.
RowsOfRegion(i) ==
    LET q == MixtureOf(regions_to_decompose[i])
    IN  [j \in 1..Len(q) |->
           [a \in 1..(Len(image.shape) + 1) |->
              IF a <= Len(image.shape)
              THEN q[j][a] \div AxisVoxel(a)
                     + regions_to_decompose[i].bbox[a]
              ELSE i - 1]]

RECURSIVE RowsUpTo(_)
\* The rows of the regions 1..i fitted alone, put together by region id.
RowsUpTo(i) == IF i = 0 THEN <<>> ELSE RowsUpTo(i - 1) \o RowsOfRegion(i)

\* C21: the fitted positions of a region depend only on the patch of the
\* region and on the shared read-only arguments, so that the regions
\* fitted each on its own, in any order, and put together by region id
\* give the output of the sequential loop; within a region only the first
\* gaussian carries the background, and the first gaussian of every region
\* carries the fitted background.
C21_RegionIndependence ==
    /\ AfterReconcile
         => /\ positions_gaussian = MixtureOf(regions_to_decompose[i_region])
            /\ spots_in_regions = RowsUpTo(i_region)
    /\ (entry = "decompose_dense" /\ pc = "loop")
         => background = IF nb_gaussian = 0
                         THEN parameters_fitted.background ELSE 0

\* Two regions were decomposed with a fitted background above 0, the
\* first of them into several spots.
C21_Witness ==
    /\ Merged
    /\ Len(regions_to_decompose) = 2
    /\ parameters_fitted.background > 0
    /\ parameters_fitted.amplitude > 0
    /\ dense_regions[1][Len(image.shape) + 1] >= 2
    /\ dense_regions[2][Len(image.shape) + 1] >= 2

\* --------------------------------------------- termination of the loop

\* A pass of the loop that follows an earlier pass: the earlier placement
\* lowered the SSR, unless it was the limit_gaussian-th placement.
PassAfterImprovement ==
    (pc = "loop" /\ pc' = "loop" /\ nb_gaussian' = nb_gaussian + 1
       /\ nb_gaussian > 0 /\ nb_gaussian # limit_gaussian)
      => (diff_ssr < 0 /\ ssr >= 0)

\* C22: for every patch and every fitted amplitude >= 0 and background
\* >= 0, whatever limit_gaussian is, the loop of the fit terminates: it
\* reaches the discard or warning step. Every pass but the first and the
\* one after the limit_gaussian-th placement follows a strict decrease of
\* the SSR, which is never negative.
C22_LoopTerminates ==
    /\ [][PassAfterImprovement]_vars
    /\ <>(pc # "loop")

\* The loop was left after the limit_gaussian-th placement and at least
\* two more.
C22_Witness ==
    /\ FitCalled
    /\ pc = "clip"
    /\ nb_gaussian >= limit_gaussian + 2
    /\ amplitude > 0

\* ------------------------------------------------- count conservation

RECURSIVE CountsUpTo(_, _)
\* The sum of the spot counts of the first n records.
CountsUpTo(records, n) ==
    IF n = 0 THEN 0
    ELSE CountsUpTo(records, n - 1) + records[n][Len(image.shape) + 1]

\* The number of fitted spots tagged with the region id.
NbTagged(id) ==
    Cardinality({j \in 1..Len(spots_in_regions) :
                    spots_in_regions[j][Len(image.shape) + 1] = id})

\* C23: on a run of decompose_dense that reaches the merge, the length of
\* the final spot list is the number of the outside spots plus the sum of
\* the spot counts of the region records, and the spot count of each
\* record is the number of the fitted spots tagged with its region id.
C23_CountConservation ==
    Merged
      => LET records == result.dense_regions.rows
         IN  /\ Len(result.spots)
                  = Len(SelectSeq(spots.rows, OutsideAnyKeptBox))
                    + CountsUpTo(records, Len(records))
             /\ \A i \in 1..Len(records) :
                   records[i][Len(image.shape) + 1]
                     = NbTagged(records[i][Len(image.shape) + 4])

\* Two regions with different spot counts and a spot outside them.
C23_Witness ==
    /\ Merged
    /\ Len(result.dense_regions.rows) = 2
    /\ result.dense_regions.rows[1][Len(image.shape) + 1]
         # result.dense_regions.rows[2][Len(image.shape) + 1]
    /\ Len(spots_out_regions) >= 1

====
